---- MODULE Spec2Model ----
(***************************************************************************)
(* Per-node execution engine of SimAI / ASTRA-sim: the Workload FSM        *)
(* (iterate_hybrid_parallel_Transformer_fwd_in_bckwd), the Layer           *)
(* completion callbacks, the Sys stream scheduler and the Sys send         *)
(* serialisation.                                                          *)
(*                                                                         *)
(* Simulated time is abstracted: a registered event may be delivered at    *)
(* any later step, and the network completes streams and sends at          *)
(* arbitrary moments.                                                      *)
(***************************************************************************)
EXTENDS Integers, Sequences, FiniteSets, Bags, TLC

\* ------------------------------------------------------------------------
\* Bounds
\* ------------------------------------------------------------------------
TOTAL_PASS == 2
\* Frames of Workload::call the call stack holds.
MaxNesting == 3
\* DataSets one pipeline node creates before the model stops following it.
MaxDataSets == 4

\* ------------------------------------------------------------------------
\* Workload files (the layer table read by Workload::initialize_workload)
\* ------------------------------------------------------------------------
\* One layer line: compute cycles, collective kind, bytes and "some dimension
\* involved" for each of fwd / ig / wg, the update time, then the two
\* checkpoint flags.
LayerLine(fc, ft, fs, fd, ic, it, is, id, wc, wt, ws, wd, ut, ck, ini) ==
  [fwd_pass_compute_time |-> fc, fwd_pass_comm_type |-> ft,
   fwd_pass_comm_size |-> fs, fwd_pass_comm_involved_dimensions |-> fd,
   input_grad_compute_time |-> ic, input_grad_comm_type |-> it,
   input_grad_comm_size |-> is, input_grad_comm_involved_dimensions |-> id,
   weight_grad_compute_time |-> wc, weight_grad_comm_type |-> wt,
   weight_grad_comm_size |-> ws, weight_grad_comm_involved_dimensions |-> wd,
   weight_grad_update_time |-> ut,
   is_checkpoint |-> ck, needs_fwd_in_bckwd_initiation |-> ini]

\* A transformer layer with all three collectives.
FullLayer(ck, ini) ==
  LayerLine(1, "All_Gather", 4096, TRUE, 1, "Reduce_Scatter", 4096, TRUE,
            1, "All_Reduce", 4096, TRUE, 1, ck, ini)
\* A layer without any communication and without compute delay.
QuietLayer(ck, ini) ==
  LayerLine(0, "None", 0, FALSE, 0, "None", 0, FALSE,
            0, "None", 0, FALSE, 0, ck, ini)
\* A layer whose forward collective is small and whose wg collective has all
\* dimensions disabled.
MixedLayer(ck, ini) ==
  LayerLine(0, "All_Reduce", 1024, TRUE, 1, "All_Reduce", 8192, FALSE,
            0, "All_Reduce", 4096, TRUE, 2, ck, ini)
\* A layer with forward compute and forward collective only.
FwdLayer(ck, ini) ==
  LayerLine(1, "All_Gather", 4096, TRUE, 0, "None", 0, FALSE,
            0, "None", 0, FALSE, 3, ck, ini)

WorkloadFiles ==
  { \* two transformer layers, no checkpointing
    [name |-> "tp2", policy |-> "TransformerFwdInBckwd",
     pipeline_model_parallelism |-> 1, GA |-> 1, id |-> 0,
     chunks |-> 2,
     layers |-> <<FullLayer(FALSE, FALSE), FullLayer(FALSE, FALSE)>>],
    \* three layers, mixed
    [name |-> "mixed3", policy |-> "TransformerFwdInBckwd",
     pipeline_model_parallelism |-> 1, GA |-> 1, id |-> 0,
     chunks |-> 1,
     layers |-> <<MixedLayer(FALSE, FALSE), QuietLayer(FALSE, FALSE),
                  FullLayer(FALSE, FALSE)>>],
    \* 8 layers, checkpoints: 2 0 4, checkpoint_initiates: 2 3 7
    [name |-> "ckpt8", policy |-> "TransformerFwdInBckwd",
     pipeline_model_parallelism |-> 1, GA |-> 1, id |-> 0,
     chunks |-> 1,
     layers |-> <<FwdLayer(TRUE, FALSE), QuietLayer(FALSE, FALSE),
                  FwdLayer(FALSE, FALSE), MixedLayer(FALSE, TRUE),
                  FwdLayer(TRUE, FALSE), QuietLayer(FALSE, FALSE),
                  FwdLayer(FALSE, FALSE), FullLayer(FALSE, TRUE)>>],
    \* 4 layers, checkpoints: 1 1, checkpoint_initiates: 1 3
    [name |-> "ckpt4", policy |-> "TransformerFwdInBckwd",
     pipeline_model_parallelism |-> 1, GA |-> 1, id |-> 0,
     chunks |-> 1,
     layers |-> <<FullLayer(FALSE, FALSE), FwdLayer(TRUE, FALSE),
                  FullLayer(FALSE, FALSE), FwdLayer(FALSE, TRUE)>>],
    \* 3 layers with small forward messages, checkpoints: 1 0,
    \* checkpoint_initiates: 1 2
    [name |-> "ckpt3", policy |-> "TransformerFwdInBckwd",
     pipeline_model_parallelism |-> 1, GA |-> 1, id |-> 0,
     chunks |-> 1,
     layers |-> <<MixedLayer(TRUE, FALSE), MixedLayer(FALSE, FALSE),
                  FullLayer(FALSE, TRUE)>>],
    \* 2 layers, no checkpoint, checkpoint_initiates: 1 0
    [name |-> "trigger0", policy |-> "TransformerFwdInBckwd",
     pipeline_model_parallelism |-> 1, GA |-> 1, id |-> 0,
     chunks |-> 1,
     layers |-> <<FwdLayer(FALSE, TRUE), FullLayer(FALSE, FALSE)>>],
    \* 2 layers, the last one both checkpoint and recompute trigger:
    \* checkpoints: 1 1, checkpoint_initiates: 1 1
    [name |-> "ckpt2", policy |-> "TransformerFwdInBckwd",
     pipeline_model_parallelism |-> 1, GA |-> 1, id |-> 0,
     chunks |-> 1,
     layers |-> <<FullLayer(FALSE, FALSE), FwdLayer(TRUE, TRUE)>>] }

\* Workload files of the DATA policy.
DataWorkloadFiles ==
  { \* two layers
    [name |-> "dp2", policy |-> "Data",
     pipeline_model_parallelism |-> 1, GA |-> 1, id |-> 0, chunks |-> 1,
     layers |-> <<FullLayer(FALSE, FALSE), FullLayer(FALSE, FALSE)>>],
    \* three layers, two streams per collective
    [name |-> "dp3", policy |-> "Data",
     pipeline_model_parallelism |-> 1, GA |-> 1, id |-> 0, chunks |-> 2,
     layers |-> <<MixedLayer(FALSE, FALSE), FullLayer(FALSE, FALSE),
                  MixedLayer(FALSE, FALSE)>>] }

\* Layer tables run with pipeline parallelism: pipeline_model_parallelism
\* stages, GA microbatches.
PipelineTables ==
  { \* four layers on two stages
    [name |-> "pipe2", pp |-> 2, ga |-> 2,
     layers |-> <<FullLayer(FALSE, FALSE), FullLayer(FALSE, FALSE),
                  FullLayer(FALSE, FALSE), FullLayer(FALSE, FALSE)>>],
    \* two silent layers on two stages
    [name |-> "pipe2q", pp |-> 2, ga |-> 3,
     layers |-> <<QuietLayer(FALSE, FALSE), QuietLayer(FALSE, FALSE)>>],
    \* fewer microbatches than stages
    [name |-> "pipe3", pp |-> 3, ga |-> 2,
     layers |-> <<FullLayer(FALSE, FALSE), FullLayer(FALSE, FALSE),
                  FullLayer(FALSE, FALSE)>>],
    \* fewer layers than stages
    [name |-> "pipe3s", pp |-> 3, ga |-> 3,
     layers |-> <<FwdLayer(FALSE, FALSE), FwdLayer(FALSE, FALSE)>>],
    \* four silent layers on four stages, eight microbatches
    [name |-> "pipe4", pp |-> 4, ga |-> 8,
     layers |-> <<QuietLayer(FALSE, FALSE), QuietLayer(FALSE, FALSE),
                  QuietLayer(FALSE, FALSE), QuietLayer(FALSE, FALSE)>>] }

\* The ranks of one pipeline group and one rank of the next group.
Ranks == 0 .. 3

\* Workload files with pipeline parallelism, one per table and rank.
PipelineWorkloadFiles ==
  { [name |-> x[1].name, policy |-> "TransformerFwdInBckwd",
     pipeline_model_parallelism |-> x[1].pp, GA |-> x[1].ga, id |-> x[2],
     chunks |-> 1, layers |-> x[1].layers] :
    x \in {y \in PipelineTables \X Ranks : y[2] <= y[1].pp} }

VARIABLES
  cfg,              \* the workload file the node was constructed with
  workload,         \* Workload: FSM fields
  layers,           \* Layer runtime fields, one record per layer
  datasets,         \* live DataSet objects held in the layers' dataset maps
  event_queue,      \* Sys::event_queue (bag of registered events)
  streams_injected, \* Sys::streams_injected
  streams_finished, \* Sys::streams_finished
  dataset_ids,      \* number of DataSet ids handed out so far
  registered_for_finished_stream_event, \* Sys: listeners (is the Workload in)
  reports,          \* number of report()/workload_finished() calls
  panic,            \* "none", or why the process died
  fwd_in_bckwd_log, \* layers whose forward pass ran in the recomputation
  last_issue,       \* the arguments of the latest issue_*_comm call
  \* -- stream scheduler (Sys and its SchedulerUnit)
  queue_threshold,       \* SchedulerUnit: initialized streams per queue
  max_running_streams,   \* SchedulerUnit: promoted streams per node
  ready_list_threshold,  \* SchedulerUnit: streams in their first phase
  streams,               \* the StreamBaseline objects, by stream_num
  ready_list,            \* Sys::ready_list
  active_Streams,        \* Sys::active_Streams, one queue per dimension
  running_streams,       \* SchedulerUnit::running_streams
  total_running_streams, \* Sys::total_running_streams
  first_phase_streams,   \* Sys::first_phase_streams
  intra_dimension_scheduling, \* Sys: the policy of insert_stream
  \* -- send serialisation (Sys::sim_send)
  is_there_pending_sends, \* Sys: is the key (dst, tag) marked busy
  pending_sends,          \* Sys: queued sends per key
  NI_in_flight,           \* sends handed to NI->sim_send, not yet PacketSent
  NI_forwarded,           \* per key, the sends in the order NI received them
  send_calls,             \* the sim_send calls so far: <<delay, key>> each
  \* -- topology and collective generation
  physical_dims,                 \* Sys::physical_dims
  queues_per_dim,                \* Sys::queues_per_dim
  implementation_per_dimension,  \* Sys: per collective, one entry per dimension
  logical_broken_dims,           \* Sys::logical_broken_dims
  dimension_to_break,            \* what break_dimension returned (-2: not called)
  preferred_dataset_splits,      \* Sys::preferred_dataset_splits
  last_batch,                    \* the latest batch generate_collective built
  \* -- rendezvous sends (Sys::rendezvous_sim_send / rendezvous_sim_recv)
  rendezvous_recvs,  \* receives posted for a control message, with their
                     \* RendezvousSendData
  control_wire,      \* control messages the peers sent, not yet delivered
  control_received,  \* control messages delivered to this node, in order
  send_bytes,        \* the byte count of each sim_send call
  \* -- event registration and delivery (try_register_event, call_events)
  boostedTick,          \* Sys::boostedTick(): the current tick
  event_queue_by_tick,  \* Sys::event_queue: tick -> list of events
  pending_events,       \* Sys::pending_events
  NS3_scheduled,        \* ticks for which NI->sim_schedule holds a CallEvents
  calling,              \* call_events: position in the list being run (0: idle)
  registered,           \* tick of each event registered so far, by event
  delivered,            \* the events called so far: <<event, tick of the call>>
  \* -- sysCriticalSection
  g_sys_inCriticalSection,  \* the atomic flag of the spin lock
  threads,                  \* per backend thread: where it is and what it touches
  \* -- pcap sniffer (ns3::pcap_sniffer)
  pcap_opened,     \* static bool pcap_opened
  pcap_writer,     \* static unique_ptr pcap_writer: the file it writes, or none
  pcap_files,      \* the capture files on disk: the frames of each
  debug_mode,      \* static bool debug_mode
  debug_ofs,       \* static ofstream debug_ofs: is it open, lines written
  pcap_calls,      \* the calls of the sniffer made so far
  capture,         \* the capture begun by the latest OpenPcap: its file, the
                   \* WritePacketToPcap calls since, and whether it was closed
  host_order,      \* byte order of the host the sniffer runs on
  last_frame,      \* the latest frame WritePacketToPcap handed to
                   \* write_frame_with_timestamp, with what it detected
  \* -- stream priorities (Sys::get_priority)
  scheduling_policy,  \* Sys::scheduling_policy, set by the constructor
  priority_counter,   \* Sys::priority_counter
  issued              \* the streams issued so far: the policy each was
                      \* issued with and the priority it got

fsm_vars == <<cfg, workload, layers, datasets, event_queue, streams_injected,
              streams_finished, dataset_ids,
              registered_for_finished_stream_event, reports, panic,
              fwd_in_bckwd_log, last_issue>>

sched_vars == <<queue_threshold, max_running_streams, ready_list_threshold,
                streams, ready_list, active_Streams, running_streams,
                total_running_streams, first_phase_streams,
                intra_dimension_scheduling>>

send_vars == <<is_there_pending_sends, pending_sends, NI_in_flight,
               NI_forwarded, send_calls>>

gen_vars == <<physical_dims, queues_per_dim, implementation_per_dimension,
              logical_broken_dims, dimension_to_break,
              preferred_dataset_splits, last_batch>>

rdv_vars == <<rendezvous_recvs, control_wire, control_received, send_bytes>>

evt_vars == <<boostedTick, event_queue_by_tick, pending_events, NS3_scheduled,
              calling, registered, delivered>>

thr_vars == <<g_sys_inCriticalSection, threads>>

pcap_vars == <<pcap_opened, pcap_writer, pcap_files, debug_mode, debug_ofs,
               pcap_calls, capture, host_order, last_frame>>

prio_vars == <<scheduling_policy, priority_counter, issued>>

vars == <<fsm_vars, sched_vars, send_vars, gen_vars, rdv_vars, evt_vars,
          thr_vars, pcap_vars, prio_vars>>

\* ------------------------------------------------------------------------
\* Helpers over the node state (a record with one field per FSM variable)
\* ------------------------------------------------------------------------
SIZE == Len(cfg.layers)
Lyr(i) == cfg.layers[i + 1]
Phases == {"fwd", "ig", "wg"}
\* The four point-to-point transfers of a pipeline stage boundary
\* (pp_send_forward_datasets, pp_recv_forward_datasets, ...).
PPPhases == {"pp_send_fwd", "pp_recv_fwd", "pp_send_bwd", "pp_recv_bwd"}

NodeState ==
  [workload |-> workload, layers |-> layers, datasets |-> datasets,
   event_queue |-> event_queue, streams_injected |-> streams_injected,
   streams_finished |-> streams_finished, dataset_ids |-> dataset_ids,
   registered_for_finished_stream_event |->
     registered_for_finished_stream_event,
   reports |-> reports, panic |-> panic,
   fwd_in_bckwd_log |-> fwd_in_bckwd_log, last_issue |-> last_issue,
   nesting |-> 0]

\* The dataset map of layer l for one phase (fwd_pass_datasets,
\* input_grad_datasets, weight_grad_datasets).
DatasetMap(st, l, ph) == {d \in st.datasets : d.layer = l /\ d.phase = ph}

comm_type(l, ph) ==
  CASE ph = "fwd" -> Lyr(l).fwd_pass_comm_type
    [] ph = "ig" -> Lyr(l).input_grad_comm_type
    [] OTHER -> Lyr(l).weight_grad_comm_type

involved_dimensions(l, ph) ==
  CASE ph = "fwd" -> Lyr(l).fwd_pass_comm_involved_dimensions
    [] ph = "ig" -> Lyr(l).input_grad_comm_involved_dimensions
    [] OTHER -> Lyr(l).weight_grad_comm_involved_dimensions

\* fwd_update_time, input_grad_update_time and weight_grad_update_time of
\* layer l: the constructor gives all three the weight_grad_update_time of
\* the layer line.
update_time(l, ph) == Lyr(l).weight_grad_update_time

After_Delay(ph) ==
  CASE ph = "fwd" -> "Fwd_Comm_Finished_After_Delay"
    [] ph = "ig" -> "Input_Grad_Comm_Finished_After_Delay"
    [] ph = "pp_send_fwd" -> "PP_Send_Forward_Finished_After_Delay"
    [] ph = "pp_recv_fwd" -> "PP_Recv_Forward_Finished_After_Delay"
    [] ph = "pp_send_bwd" -> "PP_Send_Backward_Finished_After_Delay"
    [] ph = "pp_recv_bwd" -> "PP_Recv_Backward_Finished_After_Delay"
    [] OTHER -> "Wight_Grad_Comm_Finished_After_Delay"

PhaseOf(event) ==
  CASE event = "Fwd_Comm_Finished_After_Delay" -> "fwd"
    [] event = "Input_Grad_Comm_Finished_After_Delay" -> "ig"
    [] event = "PP_Send_Forward_Finished_After_Delay" -> "pp_send_fwd"
    [] event = "PP_Recv_Forward_Finished_After_Delay" -> "pp_recv_fwd"
    [] event = "PP_Send_Backward_Finished_After_Delay" -> "pp_send_bwd"
    [] event = "PP_Recv_Backward_Finished_After_Delay" -> "pp_recv_bwd"
    [] OTHER -> "wg"

\* Sys::register_event / Sys::try_register_event: file the event.
\* callable is "workload" or the number of the Layer, as a string.
register_event(st, callable, event, data, cycles) ==
  [st EXCEPT !.event_queue =
     @ (+) SetToBag({[callable |-> callable, event |-> event,
                      data |-> data, cycles |-> cycles]})]

\* try_register_event(this, Workload_Wait, NULL, counter): the cycles
\* argument is passed by reference and reset to 0.
try_register_event_counter(st) ==
  [register_event(st, "workload", "Workload_Wait", 0, st.workload.counter)
     EXCEPT !.workload.counter = 0]

\* Faulty variant: the check never blocks.
is_comm_finished_blocking_never_blocks(st, l, ph) == [ret |-> TRUE, st |-> st]

\* Layer::is_*_comm_finished_blocking: the answer and the node state after
\* the call (the first failed check records the start of the wait).
is_comm_finished_blocking(st, l, ph) ==
  IF DatasetMap(st, l, ph) = {}
  THEN [ret |-> TRUE, st |-> st]
  ELSE [ret |-> FALSE,
        st |-> IF st.layers[l].started_waiting_for[ph] = 0
               THEN [st EXCEPT !.layers[l].started_waiting_for[ph] = 1]
               ELSE st]

\* Faulty variant: the DataSet is active whatever the dimensions.
generate_collective_always_active(st, l, ph) ==
  [active |-> TRUE, my_id |-> st.dataset_ids + 1,
   st |-> [st EXCEPT !.dataset_ids = @ + 1,
                     !.streams_injected = @ + cfg.chunks]]

\* Sys::generate_collective as seen by the Layer: an inactive DataSet when
\* no dimension takes part, else a DataSet of cfg.chunks streams.
generate_collective(st, l, ph) ==
  IF ~involved_dimensions(l, ph)
  THEN [active |-> FALSE, my_id |-> 0, st |-> st]
  ELSE [active |-> TRUE, my_id |-> st.dataset_ids + 1,
        st |-> [st EXCEPT !.dataset_ids = @ + 1,
                          !.streams_injected = @ + cfg.chunks]]

\* Faulty variant: reports as soon as the pass count is reached.
check_for_sim_end_ignoring_streams(st) ==
  IF st.workload.pass_counter = TOTAL_PASS
  THEN [st EXCEPT !.workload.current_state = "Wait_For_Sim_Finish",
                  !.reports = @ + 1]
  ELSE st

\* Workload::check_for_sim_end
check_for_sim_end(st) ==
  IF st.workload.pass_counter = TOTAL_PASS
  THEN LET s1 == [st EXCEPT !.workload.current_state = "Wait_For_Sim_Finish"]
       IN IF s1.streams_finished # s1.streams_injected
             /\ ~s1.workload.registered_for_finished_streams
          THEN is_comm_finished_blocking(
                 [s1 EXCEPT !.registered_for_finished_stream_event = TRUE,
                            !.workload.registered_for_finished_streams = TRUE],
                 0, "wg").st
          ELSE IF s1.streams_finished = s1.streams_injected
               THEN [s1 EXCEPT !.reports = @ + 1]
               ELSE s1
  ELSE st

RECURSIVE WorkloadCall(_, _)

\* A call of Workload::call made from inside a handler of the Workload
\* (Layer::issue_*_comm with nothing to wait for): one more frame on the
\* call stack, which overflows past MaxNesting frames.
NestedWorkloadCall(st, ub) ==
  IF st.nesting >= MaxNesting
  THEN [st EXCEPT !.panic = "stack_overflow"]
  ELSE [WorkloadCall([st EXCEPT !.nesting = @ + 1], ub)
          EXCEPT !.nesting = st.nesting]

\* Faulty variant: every collective goes out as a forward one does.
issue_arguments_as_forward(l, ph, pref_scheduling, barrier, size) ==
  [layer |-> l, phase |-> ph, policy |-> "None", barrier |-> "Blocking",
   size |-> size]

\* What an issue_*_comm call of layer l hands to the collective it creates:
\* the scheduling policy, the barrier and the layer's message size.
issue_arguments(l, ph, pref_scheduling, barrier, size) ==
  [layer |-> l, phase |-> ph, policy |-> pref_scheduling,
   barrier |-> barrier, size |-> size]

\* Layer::issue_forward_pass_comm / issue_input_grad_comm /
\* issue_weight_grad_comm.  ub is what an out-of-bounds read yields, handed
\* on to the nested Workload::call.
issue_comm(st, l, ph, pref_scheduling, barrier, ub) ==
  LET s1 == [st EXCEPT !.layers[l].barrier[ph] = barrier,
                       !.layers[l].collective_counter = @ + 1]
      s2 == [s1 EXCEPT !.last_issue =
               issue_arguments(l, ph, pref_scheduling, barrier,
                  IF ph = "fwd" THEN s1.layers[l].fwd_pass_comm_size
                  ELSE IF ph = "ig" THEN Lyr(l).input_grad_comm_size
                  ELSE Lyr(l).weight_grad_comm_size)]
      inactive == [s2 EXCEPT !.layers[l].collective_counter = @ - 1]
  IN IF comm_type(l, ph) = "None"
     THEN IF barrier = "Blocking" THEN NestedWorkloadCall(inactive, ub)
          ELSE inactive
     ELSE LET g == generate_collective(s2, l, ph)
          IN IF ~g.active
             THEN LET s3 == [g.st EXCEPT !.layers[l].collective_counter = @ - 1]
                  IN IF barrier = "Blocking" THEN NestedWorkloadCall(s3, ub)
                     ELSE s3
             ELSE [g.st EXCEPT !.datasets = @ \cup
                     {[my_id |-> g.my_id, layer |-> l, phase |-> ph,
                       microbatch |-> -1, in_map |-> TRUE,
                       total_streams |-> cfg.chunks,
                       finished_streams |-> 0]}]

\* pp_send_forward_datasets[microbatch_id] and the three other maps of
\* layer l: the DataSet the key holds (none or one).
PPDatasetMap(st, l, ph, microbatch_id) ==
  {d \in st.datasets : /\ d.layer = l /\ d.phase = ph
                       /\ d.microbatch = microbatch_id /\ d.in_map}

\* The flag each issue_pp_* tests before it does anything.
needs_pp(st, l, ph) ==
  IF ph \in {"pp_send_fwd", "pp_recv_bwd"}
  THEN st.layers[l].needs_pp_send_forward
  ELSE st.layers[l].needs_pp_recv_forward

\* The stage validation of each issue_pp_*.
pp_stage_valid(st, l, ph) ==
  LET my_stage == st.layers[l].pipeline_stage
      PP_size == cfg.pipeline_model_parallelism
  IN IF ph \in {"pp_send_fwd", "pp_recv_bwd"}
     THEN ~(my_stage < 0 \/ my_stage >= PP_size - 1)
     ELSE ~(my_stage <= 0 \/ my_stage >= PP_size)

\* Layer::issue_pp_send_forward / issue_pp_recv_forward /
\* issue_pp_send_backward / issue_pp_recv_backward.  The new DataSet takes
\* the key of the microbatch; a DataSet the key still held stays alive
\* without a key.
issue_pp(st, l, ph, microbatch_id) ==
  IF cfg.pipeline_model_parallelism <= 1 \/ ~needs_pp(st, l, ph)
  THEN st
  ELSE IF ~pp_stage_valid(st, l, ph) THEN st
  ELSE LET old == PPDatasetMap(st, l, ph, microbatch_id)
       IN [st EXCEPT
             !.dataset_ids = @ + 1,
             !.streams_injected = @ + cfg.chunks,
             !.datasets =
               {IF d \in old THEN [d EXCEPT !.in_map = FALSE] ELSE d : d \in @}
               \cup {[my_id |-> st.dataset_ids + 1, layer |-> l, phase |-> ph,
                      microbatch |-> microbatch_id, in_map |-> TRUE,
                      total_streams |-> cfg.chunks, finished_streams |-> 0]},
             !.layers[l].collective_counter = @ + 1]

\* Layer::is_pp_*_finished_blocking
is_pp_finished_blocking(st, l, ph, microbatch_id) ==
  IF PPDatasetMap(st, l, ph, microbatch_id) = {}
  THEN [ret |-> TRUE, st |-> st]
  ELSE [ret |-> FALSE,
        st |-> IF st.layers[l].started_waiting_for[ph] = 0
               THEN [st EXCEPT !.layers[l].started_waiting_for[ph] = 1]
               ELSE st]

\* Workload::should_process_layer
should_process_layer(st, layer_idx) ==
  IF ~st.workload.pp_enabled THEN TRUE
  ELSE layer_idx >= st.workload.pp_first_layer
       /\ layer_idx <= st.workload.pp_last_layer

\* Workload::execute_pp_forward
execute_pp_forward(st, microbatch_id) ==
  register_event(
    [st EXCEPT !.workload.pp_current_microbatch = microbatch_id,
               !.workload.current_state = "Forward_Pass",
               !.workload.index = st.workload.pp_first_layer,
               !.workload.delay_loaded = FALSE,
               !.workload.collective_issued = FALSE],
    "workload", "General", 0, 1)

\* Workload::execute_pp_backward
execute_pp_backward(st, microbatch_id) ==
  register_event(
    [st EXCEPT !.workload.pp_current_microbatch = microbatch_id,
               !.workload.current_state = "Input_Gradient",
               !.workload.index = st.workload.pp_last_layer,
               !.workload.delay_loaded = FALSE,
               !.workload.collective_issued = FALSE],
    "workload", "General", 0, 1)

\* The warmup microbatches 0 .. warmup_microbatches - 1, in order.
WarmupQueue(n) == [m \in 1 .. n |-> m - 1]

\* Workload::schedule_next_pp_operation
schedule_next_pp_operation(st) ==
  LET w == st.workload
      pp_state == IF w.pp_forward_completed < w.warmup_microbatches
                  THEN "Warmup"
                  ELSE IF w.pp_backward_completed
                            < w.num_microbatches - w.cooldown_microbatches
                  THEN "Steady"
                  ELSE "Cooldown"
      s1 == [st EXCEPT !.workload.pp_state = pp_state]
      backward ==
        execute_pp_backward(
          [s1 EXCEPT !.workload.pp_backward_queue = Tail(@),
                     !.workload.pp_backward_in_progress =
                        @ \cup {Head(w.pp_backward_queue)}],
          Head(w.pp_backward_queue))
  IN CASE pp_state = "Warmup" ->
            IF w.pp_forward_queue # <<>>
            THEN execute_pp_forward(
                   [s1 EXCEPT !.workload.pp_forward_queue = Tail(@),
                              !.workload.pp_forward_in_progress =
                                 @ \cup {Head(w.pp_forward_queue)}],
                   Head(w.pp_forward_queue))
            ELSE s1
       [] pp_state = "Steady" ->
            IF w.pp_backward_queue # <<>> THEN backward
            ELSE IF w.pp_forward_completed < w.num_microbatches
            THEN LET next_forward_id ==
                       w.warmup_microbatches
                       + (w.pp_forward_completed - w.warmup_microbatches)
                 IN execute_pp_forward(
                      [s1 EXCEPT !.workload.pp_forward_in_progress =
                                    @ \cup {next_forward_id}],
                      next_forward_id)
            ELSE s1
       [] OTHER ->
            IF w.pp_backward_queue # <<>> THEN backward
            ELSE IF w.pp_backward_completed >= w.num_microbatches
            THEN [s1 EXCEPT
                    !.workload.pp_forward_completed = 0,
                    !.workload.pp_backward_completed = 0,
                    !.workload.pp_forward_queue =
                       WarmupQueue(w.warmup_microbatches),
                    !.workload.pp_backward_queue = <<>>,
                    !.workload.pass_counter = @ + 1,
                    !.workload.current_state = "Forward_Pass",
                    !.workload.index = w.pp_first_layer]
            ELSE s1

\* The top of the FSM tick with pipeline parallelism, on a layer the stage
\* does not own: step over it, or finish the forward / backward of the
\* microbatch.
skip_layer(st) ==
  LET w == st.workload
  IN IF w.current_state = "Forward_Pass" /\ w.index + 1 > w.pp_last_layer
     THEN schedule_next_pp_operation(
            [st EXCEPT !.workload.index = @ + 1,
                       !.workload.pp_forward_in_progress =
                          @ \ {w.pp_current_microbatch},
                       !.workload.pp_backward_queue =
                          Append(@, w.pp_current_microbatch),
                       !.workload.pp_forward_completed = @ + 1])
     ELSE IF w.current_state = "Input_Gradient"
             /\ w.index - 1 < w.pp_first_layer
     THEN schedule_next_pp_operation(
            [st EXCEPT !.workload.index = @ - 1,
                       !.workload.pp_backward_in_progress =
                          @ \ {w.pp_current_microbatch},
                       !.workload.pp_backward_completed = @ + 1])
     ELSE register_event(
            [st EXCEPT !.workload.index =
               CASE w.current_state = "Forward_Pass" -> @ + 1
                 [] w.current_state = "Input_Gradient" -> @ - 1
                 [] OTHER -> @],
            "workload", "General", 0, 1)

\* Load the compute delay of the current step once.
LoadDelay(st, cycles) ==
  IF st.workload.delay_loaded THEN st
  ELSE [st EXCEPT !.workload.counter = cycles, !.workload.delay_loaded = TRUE]

\* Faulty variant: small messages keep their size.
RoundFwdSize_keeping_small_sizes(st, l) == st

\* The forward-pass minimum message size.
RoundFwdSize(st, l) ==
  IF st.layers[l].fwd_pass_comm_size < 4096
     /\ st.layers[l].fwd_pass_comm_size > 0
  THEN [st EXCEPT !.layers[l].fwd_pass_comm_size = 4096]
  ELSE st

\* The layer flag behind each of the four transfers.
pp_flag(st, l, ph) ==
  CASE ph = "pp_send_fwd" -> st.layers[l].needs_pp_send_forward
    [] ph = "pp_recv_fwd" -> st.layers[l].needs_pp_recv_forward
    [] ph = "pp_send_bwd" -> st.layers[l].needs_pp_send_backward
    [] OTHER -> st.layers[l].needs_pp_recv_backward

\* "PP receive before first layer" / "PP receive before backward at last
\* layer": whether the tick goes on (go) and the state it goes on or
\* returns with.
pp_receive(st, l, ph) ==
  IF ~(st.workload.pp_enabled /\ pp_flag(st, l, ph))
  THEN [go |-> TRUE, st |-> st]
  ELSE IF ~st.workload.collective_issued
  THEN [go |-> FALSE,
        st |-> [issue_pp(st, l, ph, st.workload.pp_current_microbatch)
                  EXCEPT !.workload.collective_issued = TRUE]]
  ELSE LET b == is_pp_finished_blocking(st, l, ph,
                                        st.workload.pp_current_microbatch)
       IN IF ~b.ret THEN [go |-> FALSE, st |-> b.st]
          ELSE [go |-> TRUE,
                st |-> [b.st EXCEPT !.workload.collective_issued = FALSE]]

\* "PP send after last layer" / "PP send after backward at first layer"
pp_send(st, l, ph) ==
  IF st.workload.pp_enabled /\ pp_flag(st, l, ph)
  THEN issue_pp(st, l, ph, st.workload.pp_current_microbatch)
  ELSE st

\* LoopState::Forward_Pass
Forward_Pass(st, ub) ==
  LET i == st.workload.index
      r == pp_receive(st, i, "pp_recv_fwd")
      b == is_comm_finished_blocking(r.st, i, "wg")
      s1 == LoadDelay(b.st, Lyr(i).fwd_pass_compute_time)
  IN IF ~r.go THEN r.st
     ELSE IF ~b.ret THEN b.st
     ELSE IF s1.workload.counter > 0 THEN try_register_event_counter(s1)
     ELSE IF ~s1.workload.collective_issued
     THEN issue_comm(RoundFwdSize([s1 EXCEPT !.workload.collective_issued = TRUE], i),
                     i, "fwd", "None", "Blocking", ub)
     ELSE LET s2 == [pp_send(s1, i, "pp_send_fwd")
                       EXCEPT !.workload.index = @ + 1,
                              !.workload.delay_loaded = FALSE,
                              !.workload.collective_issued = FALSE]
              s3 == IF ~s2.workload.pp_enabled /\ s2.workload.index >= SIZE
                    THEN [s2 EXCEPT !.workload.current_state = "Input_Gradient",
                                    !.workload.index = @ - 1]
                    ELSE s2
          IN register_event(s3, "workload", "General", 0, 1)

\* Weight_Gradient, last step: index--, then the next pass or the
\* Input_Gradient of the layer below.
Weight_Gradient_advance_without_decrement(st) ==
  LET s3 == [st EXCEPT !.workload.collective_issued = FALSE,
                       !.workload.delay_loaded = FALSE]
  IN register_event([s3 EXCEPT !.workload.current_state = "Input_Gradient"],
                    "workload", "General", 0, 1)

Weight_Gradient_advance(st) ==
  LET s3 == [st EXCEPT !.workload.collective_issued = FALSE,
                       !.workload.delay_loaded = FALSE,
                       !.workload.index =
                          IF ~st.workload.pp_enabled /\ @ >= 0 THEN @ - 1
                          ELSE @]
      s4 == IF ~s3.workload.pp_enabled /\ s3.workload.index = -1
            THEN [s3 EXCEPT !.workload.index = 0,
                            !.workload.pass_counter = @ + 1,
                            !.workload.current_state = "Forward_Pass"]
            ELSE [s3 EXCEPT !.workload.current_state = "Input_Gradient"]
  IN register_event(s4, "workload", "General", 0, 1)

\* LoopState::Weight_Gradient
Weight_Gradient_waiting_for_its_collective(st, ub) ==
  LET i == st.workload.index
      s1 == LoadDelay(st, Lyr(i).weight_grad_compute_time)
  IN IF s1.workload.counter > 0 THEN try_register_event_counter(s1)
     ELSE IF ~s1.workload.collective_issued
     THEN issue_comm([s1 EXCEPT !.workload.collective_issued = TRUE],
                     i, "wg", "FIFO", "Non_Blocking", ub)
     ELSE LET b == is_comm_finished_blocking(s1, i, "ig")
          IN IF ~b.ret THEN b.st ELSE Weight_Gradient_advance(b.st)

Weight_Gradient(st, ub) ==
  LET i == st.workload.index
      s1 == LoadDelay(st, Lyr(i).weight_grad_compute_time)
  IN IF s1.workload.counter > 0 THEN try_register_event_counter(s1)
     ELSE LET s2 == IF ~s1.workload.collective_issued
                    THEN issue_comm([s1 EXCEPT !.workload.collective_issued = TRUE],
                                    i, "wg", "FIFO", "Non_Blocking", ub)
                    ELSE s1
              b == is_comm_finished_blocking(s2, i, "ig")
          IN IF ~b.ret THEN b.st ELSE Weight_Gradient_advance(b.st)

\* while (!layers[index--]->is_checkpoint); index++;  -- the index the scan
\* stops at, or "crash".  Below layer 0 the read is out of bounds.
RECURSIVE ScanCheckpoint(_, _)
ScanCheckpoint(i, ub) ==
  IF i >= 0
  THEN IF Lyr(i).is_checkpoint THEN [crash |-> FALSE, index |-> i]
       ELSE ScanCheckpoint(i - 1, ub)
  ELSE CASE ub = "true" -> [crash |-> FALSE, index |-> i]
         [] ub = "false" -> [crash |-> FALSE, index |-> i - 1]
         [] OTHER -> [crash |-> TRUE, index |-> i]

\* Input_Gradient, last step: on to the Weight_Gradient of the layer; with
\* pipeline parallelism index-- first, and no change of state once the index
\* is below the stage.
Input_Gradient_advance(st) ==
  LET s2 == [st EXCEPT !.workload.checkpoint_initiated = FALSE,
                       !.workload.collective_issued = FALSE,
                       !.workload.delay_loaded = FALSE]
      s3 == IF ~s2.workload.pp_enabled
            THEN [s2 EXCEPT !.workload.current_state = "Weight_Gradient"]
            ELSE IF s2.workload.index - 1 < s2.workload.pp_first_layer
            THEN [s2 EXCEPT !.workload.index = @ - 1]
            ELSE [s2 EXCEPT !.workload.index = @ - 1,
                            !.workload.current_state = "Weight_Gradient"]
  IN register_event(s3, "workload", "General", 0, 1)

\* LoopState::Input_Gradient
Input_Gradient(st, ub) ==
  LET i == st.workload.index
      r == pp_receive(st, i, "pp_recv_bwd")
      s0 == r.st
  IN IF ~r.go THEN r.st
     ELSE IF Lyr(i).needs_fwd_in_bckwd_initiation
             /\ ~s0.workload.checkpoint_initiated
     THEN LET c == ScanCheckpoint(i, ub)
          IN IF c.crash THEN [s0 EXCEPT !.panic = "segfault"]
             ELSE register_event(
                    [s0 EXCEPT !.workload.index = c.index,
                               !.workload.current_state = "Forward_In_BackPass",
                               !.workload.checkpoint_initiated = TRUE,
                               !.fwd_in_bckwd_log = <<>>],
                    "workload", "General", 0, 1)
     ELSE LET s1 == LoadDelay(s0, Lyr(i).input_grad_compute_time)
          IN IF s1.workload.counter > 0 THEN try_register_event_counter(s1)
             ELSE IF ~s1.workload.collective_issued
             THEN issue_comm([s1 EXCEPT !.workload.collective_issued = TRUE],
                             i, "ig", "LIFO", "Blocking", ub)
             ELSE Input_Gradient_advance(pp_send(s1, i, "pp_send_bwd"))

\* layers[index]->needs_fwd_in_bckwd_initiation, read after index++ in
\* Forward_In_BackPass: out of bounds when index = SIZE.
ReadInitiation(i, ub) ==
  IF i < SIZE
  THEN [crash |-> FALSE, val |-> Lyr(i).needs_fwd_in_bckwd_initiation]
  ELSE CASE ub = "true" -> [crash |-> FALSE, val |-> TRUE]
         [] ub = "false" -> [crash |-> FALSE, val |-> FALSE]
         [] OTHER -> [crash |-> TRUE, val |-> FALSE]

\* LoopState::Forward_In_BackPass
Forward_In_BackPass(st, ub) ==
  LET i == st.workload.index
      b == is_comm_finished_blocking(st, i, "wg")
      s1 == LoadDelay(b.st, Lyr(i).fwd_pass_compute_time)
  IN IF ~b.ret THEN b.st
     ELSE IF s1.workload.counter > 0 THEN try_register_event_counter(s1)
     ELSE IF ~s1.workload.collective_issued
     THEN issue_comm([s1 EXCEPT !.workload.collective_issued = TRUE,
                                !.fwd_in_bckwd_log = Append(@, i)],
                     i, "fwd", "None", "Blocking", ub)
     ELSE LET s2 == [s1 EXCEPT !.workload.index = @ + 1,
                               !.workload.delay_loaded = FALSE,
                               !.workload.collective_issued = FALSE]
              r == ReadInitiation(s2.workload.index, ub)
          IN IF r.crash THEN [s2 EXCEPT !.panic = "segfault"]
             ELSE register_event(
                    IF r.val THEN [s2 EXCEPT !.workload.current_state = "Input_Gradient"]
                    ELSE s2,
                    "workload", "General", 0, 1)

\* Faulty variant: the tick does not check for the end of the simulation.
iterate_hybrid_parallel_Transformer_fwd_in_bckwd_without_end_check(st, ub) ==
  IF ~(st.workload.index >= 0 /\ st.workload.index < SIZE)
  THEN [st EXCEPT !.panic = "assert"]
  ELSE CASE st.workload.current_state = "Forward_Pass" -> Forward_Pass(st, ub)
         [] st.workload.current_state = "Weight_Gradient" -> Weight_Gradient(st, ub)
         [] st.workload.current_state = "Input_Gradient" -> Input_Gradient(st, ub)
         [] st.workload.current_state = "Forward_In_BackPass" -> Forward_In_BackPass(st, ub)
         [] OTHER -> st

\* Workload::iterate_hybrid_parallel_Transformer_fwd_in_bckwd
iterate_hybrid_parallel_Transformer_fwd_in_bckwd(st, ub) ==
  IF ~(st.workload.index >= 0 /\ st.workload.index < SIZE)
  THEN [st EXCEPT !.panic = "assert"]
  ELSE LET s1 == check_for_sim_end(st)
       IN IF s1.workload.pp_enabled
             /\ ~should_process_layer(s1, s1.workload.index)
          THEN skip_layer(s1)
          ELSE
          CASE s1.workload.current_state = "Forward_Pass" -> Forward_Pass(s1, ub)
            [] s1.workload.current_state = "Weight_Gradient" -> Weight_Gradient(s1, ub)
            [] s1.workload.current_state = "Input_Gradient" -> Input_Gradient(s1, ub)
            [] s1.workload.current_state = "Forward_In_BackPass" -> Forward_In_BackPass(s1, ub)
            [] OTHER -> s1

\* iterate_data_parallel, LoopState::Forward_Pass: no collective.
Data_Forward_Pass(st) ==
  LET i == st.workload.index
      b == is_comm_finished_blocking(st, i, "wg")
      s1 == LoadDelay(b.st, Lyr(i).fwd_pass_compute_time)
  IN IF ~b.ret THEN b.st
     ELSE IF s1.workload.counter > 0 THEN try_register_event_counter(s1)
     ELSE LET s2 == [s1 EXCEPT !.workload.index = @ + 1,
                               !.workload.delay_loaded = FALSE]
              s3 == IF s2.workload.index >= SIZE
                    THEN [s2 EXCEPT !.workload.current_state = "Weight_Gradient",
                                    !.workload.index = @ - 1]
                    ELSE s2
          IN register_event(s3, "workload", "General", 0, 1)

\* iterate_data_parallel, LoopState::Weight_Gradient: the all-reduce of the
\* layer goes out non-blocking; layer 0 ends the pass.
Data_Weight_Gradient(st, ub) ==
  LET i == st.workload.index
      s1 == LoadDelay(st, Lyr(i).weight_grad_compute_time)
  IN IF s1.workload.counter > 0 THEN try_register_event_counter(s1)
     ELSE LET s2 == issue_comm([s1 EXCEPT !.workload.delay_loaded = FALSE],
                               i, "wg", "None", "Non_Blocking", ub)
              s3 == IF i = 0
                    THEN [s2 EXCEPT !.workload.pass_counter = @ + 1,
                                    !.workload.current_state = "Forward_Pass"]
                    ELSE [s2 EXCEPT !.workload.current_state = "Input_Gradient"]
          IN register_event(s3, "workload", "General", 0, 1)

\* Faulty variant: the backward pass stays on its layer.
Data_Input_Gradient_staying_on_the_layer(st) ==
  LET s1 == LoadDelay(st, Lyr(st.workload.index).input_grad_compute_time)
  IN IF s1.workload.counter > 0 THEN try_register_event_counter(s1)
     ELSE register_event(
            [s1 EXCEPT !.workload.delay_loaded = FALSE,
                       !.workload.current_state = "Weight_Gradient"],
            "workload", "General", 0, 1)

\* iterate_data_parallel, LoopState::Input_Gradient: no collective; index--
\* and on to the Weight_Gradient of the layer below.
Data_Input_Gradient(st) ==
  LET s1 == LoadDelay(st, Lyr(st.workload.index).input_grad_compute_time)
  IN IF s1.workload.counter > 0 THEN try_register_event_counter(s1)
     ELSE register_event(
            [s1 EXCEPT !.workload.index = @ - 1,
                       !.workload.delay_loaded = FALSE,
                       !.workload.current_state = "Weight_Gradient"],
            "workload", "General", 0, 1)

\* Workload::iterate_data_parallel
iterate_data_parallel(st, ub) ==
  IF ~(st.workload.index >= 0 /\ st.workload.index < SIZE)
  THEN [st EXCEPT !.panic = "assert"]
  ELSE LET s1 == check_for_sim_end(st)
       IN CASE s1.workload.current_state = "Forward_Pass" -> Data_Forward_Pass(s1)
            [] s1.workload.current_state = "Weight_Gradient" -> Data_Weight_Gradient(s1, ub)
            [] s1.workload.current_state = "Input_Gradient" -> Data_Input_Gradient(s1)
            [] OTHER -> s1

\* Workload::call
WorkloadCall(st, ub) ==
  IF st.panic # "none" THEN st
  ELSE IF st.workload.counter > 0 THEN try_register_event_counter(st)
  ELSE IF cfg.policy = "Data" THEN iterate_data_parallel(st, ub)
  ELSE iterate_hybrid_parallel_Transformer_fwd_in_bckwd(st, ub)

\* Sys::increase_finished_streams
increase_finished_streams(st, amount, ub) ==
  LET s1 == [st EXCEPT !.streams_finished = @ + amount]
  IN IF st.panic # "none" THEN st
     ELSE IF s1.registered_for_finished_stream_event THEN WorkloadCall(s1, ub)
     ELSE s1

\* Faulty variant: the Workload is resumed by every completion, waited
\* for or not.
LayerCallAfterDelay_always_resuming(st, l, ph, data, ub) ==
  LET ds == CHOOSE d \in DatasetMap(st, l, ph) : d.my_id = data
      erased == [st EXCEPT !.datasets = @ \ {ds},
                           !.layers[l].started_waiting_for[ph] = 0]
  IN increase_finished_streams(WorkloadCall(erased, ub), ds.total_streams, ub)

\* Layer::call for Fwd_/Input_Grad_/Wight_Grad_Comm_Finished_After_Delay
LayerCallAfterDelay(st, l, ph, data, ub) ==
  LET map == DatasetMap(st, l, ph)
      ds == CHOOSE d \in map : d.my_id = data
      erased == [st EXCEPT !.datasets = @ \ {ds}]
  IN IF Cardinality(map) = 1 /\ st.layers[l].barrier[ph] = "Blocking"
     THEN increase_finished_streams(WorkloadCall(erased, ub),
                                    ds.total_streams, ub)
     ELSE IF st.layers[l].started_waiting_for[ph] > 0
     THEN increase_finished_streams(
            WorkloadCall([erased EXCEPT !.layers[l].started_waiting_for[ph] = @ - 1], ub),
            ds.total_streams, ub)
     ELSE increase_finished_streams(erased, ds.total_streams, ub)

\* Layer::call for the four PP_*_Finished_After_Delay events: the DataSet
\* under the key of the microbatch is deleted and erased, whichever DataSet
\* the event came from, and the Workload is resumed.  A key that holds
\* nothing is a null pointer; a DataSet deleted with streams still running
\* is freed memory to them.
LayerCallPPAfterDelay(st, l, ph, microbatch_id, ub) ==
  LET map == PPDatasetMap(st, l, ph, microbatch_id)
      ds == CHOOSE d \in map : TRUE
      s1 == IF st.layers[l].started_waiting_for[ph] > 0
            THEN [st EXCEPT !.layers[l].started_waiting_for[ph] = @ - 1]
            ELSE st
      erased == IF ds.finished_streams = ds.total_streams
                THEN [s1 EXCEPT !.datasets = @ \ {ds}]
                ELSE [s1 EXCEPT !.datasets =
                        (@ \ {ds}) \cup {[ds EXCEPT !.in_map = FALSE]}]
  IN IF map = {} THEN [st EXCEPT !.panic = "segfault"]
     ELSE IF ds.finished_streams < ds.total_streams /\ ub = "crash"
     THEN [st EXCEPT !.panic = "segfault"]
     ELSE WorkloadCall(increase_finished_streams(erased, ds.total_streams, ub),
                       ub)

\* init_pipeline_parallel past the microbatch check: the warmup and
\* cooldown counts, the layers of the stage, their flags and the warmup
\* queue.
assign_pipeline_stage(st) ==
  LET pp_size == st.workload.pp_size
      my_pp_stage == st.workload.my_pp_stage
      warmup_microbatches == pp_size - my_pp_stage - 1
      layers_per_stage == SIZE \div pp_size
      remainder == SIZE % pp_size
      pp_first_layer == IF my_pp_stage < remainder
                        THEN my_pp_stage * (layers_per_stage + 1)
                        ELSE my_pp_stage * layers_per_stage + remainder
      pp_last_layer == IF my_pp_stage < remainder
                       THEN pp_first_layer + layers_per_stage
                       ELSE pp_first_layer + layers_per_stage - 1
  IN [st EXCEPT
             !.workload.warmup_microbatches = warmup_microbatches,
             !.workload.cooldown_microbatches = pp_size - my_pp_stage - 1,
             !.workload.pp_first_layer = pp_first_layer,
             !.workload.pp_last_layer = pp_last_layer,
             !.workload.pp_forward_queue = WarmupQueue(warmup_microbatches),
             !.layers = [i \in DOMAIN @ |->
                IF i >= pp_first_layer /\ i <= pp_last_layer
                THEN [@[i] EXCEPT
                        !.pipeline_stage = my_pp_stage,
                        !.needs_pp_recv_forward =
                           (i = pp_first_layer /\ my_pp_stage > 0),
                        !.needs_pp_send_forward =
                           (i = pp_last_layer /\ my_pp_stage < pp_size - 1),
                        !.needs_pp_send_backward =
                           (i = pp_first_layer /\ my_pp_stage > 0),
                        !.needs_pp_recv_backward =
                           (i = pp_last_layer /\ my_pp_stage < pp_size - 1)]
                ELSE [@[i] EXCEPT !.pipeline_stage = -1]]]

\* Faulty variant: any number of microbatches is accepted.
init_pipeline_parallel_with_any_microbatches(st) ==
  LET pp_size == cfg.pipeline_model_parallelism
      s1 == [st EXCEPT !.workload.pp_size = pp_size,
                       !.workload.pp_enabled = (pp_size > 1)]
      s2 == [s1 EXCEPT !.workload.my_pp_stage = cfg.id % pp_size,
                       !.workload.num_microbatches = cfg.GA]
  IN IF ~(pp_size > 1) THEN s1 ELSE assign_pipeline_stage(s2)

\* Workload::init_pipeline_parallel, run at the end of initialize_workload.
\* Sys::sys_panic ends the simulation on the spot.
init_pipeline_parallel(st) ==
  LET pp_size == cfg.pipeline_model_parallelism
      num_microbatches == cfg.GA
      s1 == [st EXCEPT !.workload.pp_size = pp_size,
                       !.workload.pp_enabled = (pp_size > 1)]
      s2 == [s1 EXCEPT !.workload.my_pp_stage = cfg.id % pp_size,
                       !.workload.num_microbatches = num_microbatches]
  IN IF ~(pp_size > 1) THEN s1
     ELSE IF num_microbatches < pp_size
     THEN [s2 EXCEPT !.panic = "sys_panic"]
     ELSE assign_pipeline_stage(s2)

\* ------------------------------------------------------------------------
\* The node running a workload: initial state and steps
\* ------------------------------------------------------------------------
Undefined == {"true", "false", "crash"}

NoIssue == [layer |-> -1, phase |-> "none", policy |-> "none",
            barrier |-> "none", size |-> 0]

\* State after the Workload constructor and workload->fire(): fire() is
\* call(General), held here as the first registered event.
\* The Workload and its Layers as their constructors leave them.
Constructed(file) ==
  [workload |->
     [current_state |-> "Forward_Pass", index |-> 0,
      pass_counter |-> 0, counter |-> 0, delay_loaded |-> FALSE,
      checkpoint_initiated |-> FALSE, collective_issued |-> FALSE,
      registered_for_finished_streams |-> FALSE,
      pp_enabled |-> FALSE, pp_size |-> 1, my_pp_stage |-> -1,
      num_microbatches |-> 1, warmup_microbatches |-> 0,
      cooldown_microbatches |-> 0, pp_state |-> "Warmup",
      pp_forward_completed |-> 0, pp_backward_completed |-> 0,
      pp_current_microbatch |-> 0, pp_first_layer |-> 0, pp_last_layer |-> 0,
      pp_forward_queue |-> <<>>, pp_backward_queue |-> <<>>,
      pp_forward_in_progress |-> {}, pp_backward_in_progress |-> {}],
   layers |->
     [l \in 0 .. (Len(file.layers) - 1) |->
        [started_waiting_for |-> [ph \in Phases \cup PPPhases |-> 0],
         barrier |-> [ph \in Phases |-> "none"],
         collective_counter |-> 0,
         fwd_pass_comm_size |-> file.layers[l + 1].fwd_pass_comm_size,
         pipeline_stage |-> -1,
         needs_pp_send_forward |-> FALSE, needs_pp_recv_forward |-> FALSE,
         needs_pp_send_backward |-> FALSE, needs_pp_recv_backward |-> FALSE]],
   panic |-> "none"]

InitWorkload(file) ==
  /\ cfg = file
  /\ LET st == IF file.policy = "TransformerFwdInBckwd"
               THEN init_pipeline_parallel(Constructed(file))
               ELSE Constructed(file)
     IN /\ workload = st.workload
        /\ layers = st.layers
        /\ panic = st.panic
        /\ event_queue =
             IF st.panic = "none"
             THEN SetToBag({[callable |-> "workload", event |-> "General",
                             data |-> 0, cycles |-> 0]})
             ELSE EmptyBag
  /\ datasets = {}
  /\ streams_injected = 0
  /\ streams_finished = 0
  /\ dataset_ids = 0
  /\ registered_for_finished_stream_event = FALSE
  /\ reports = 0
  /\ fwd_in_bckwd_log = <<>>
  /\ last_issue = NoIssue

Commit(st) ==
  /\ workload' = st.workload
  /\ layers' = st.layers
  /\ datasets' = st.datasets
  /\ event_queue' = st.event_queue
  /\ streams_injected' = st.streams_injected
  /\ streams_finished' = st.streams_finished
  /\ dataset_ids' = st.dataset_ids
  /\ registered_for_finished_stream_event' =
       st.registered_for_finished_stream_event
  /\ reports' = st.reports
  /\ panic' = st.panic
  /\ fwd_in_bckwd_log' = st.fwd_in_bckwd_log
  /\ last_issue' = st.last_issue
  /\ UNCHANGED <<cfg, sched_vars, send_vars, gen_vars, rdv_vars, evt_vars,
                 thr_vars, pcap_vars, prio_vars>>

\* Faulty variant: the first completion event already erases the DataSet
\* and counts its streams.
LayerCallCommFinished_erasing_at_once(st, l, ph, data) ==
  LET ds == CHOOSE d \in DatasetMap(st, l, ph) : d.my_id = data
  IN [st EXCEPT !.datasets = @ \ {ds},
                !.streams_finished = @ + ds.total_streams]

\* Layer::call for Fwd_/Input_Grad_/Wight_Grad_Comm_Finished and the four
\* PP_*_Finished events: the After_Delay event is registered update_time
\* cycles ahead, with the same event data.
LayerCallCommFinished(st, l, ph, data) ==
  register_event(st, ToString(l), After_Delay(ph), data, update_time(l, ph))

\* With pipeline parallelism the node is followed up to MaxDataSets
\* DataSets.
Followed == ~workload.pp_enabled \/ dataset_ids < MaxDataSets

Take(st, e) == [st EXCEPT !.event_queue = @ (-) SetToBag({e})]

\* Sys::call_events delivering an event registered by the Workload.
CallWorkloadEvent ==
  /\ panic = "none"
  /\ Followed
  /\ \E e \in BagToSet(event_queue), ub \in Undefined :
       /\ e.callable = "workload"
       /\ Commit(WorkloadCall(Take(NodeState, e), ub))

\* Sys::call_events delivering an After_Delay event to its Layer.
CallLayerEvent ==
  /\ panic = "none"
  /\ Followed
  /\ \E e \in BagToSet(event_queue), ub \in Undefined :
       /\ e.callable # "workload"
       /\ \E l \in DOMAIN layers :
            /\ e.callable = ToString(l)
            /\ Commit(IF PhaseOf(e.event) \in PPPhases
                      THEN LayerCallPPAfterDelay(Take(NodeState, e), l,
                                                 PhaseOf(e.event), e.data, ub)
                      ELSE LayerCallAfterDelay(Take(NodeState, e), l,
                                               PhaseOf(e.event), e.data, ub))

\* DataSet::notify_stream_finished: one more stream of the collective is
\* done; the last one fires the notifier, Layer::call(*_Comm_Finished),
\* which registers the After_Delay event.
notify_stream_finished ==
  /\ panic = "none"
  /\ Followed
  /\ \E d \in datasets :
       /\ d.finished_streams < d.total_streams
       /\ LET d2 == [d EXCEPT !.finished_streams = @ + 1]
              s1 == [NodeState EXCEPT !.datasets = (@ \ {d}) \cup {d2}]
          IN Commit(IF d2.finished_streams = d2.total_streams
                    THEN LayerCallCommFinished(
                           s1, d.layer, d.phase,
                           IF d.phase \in PPPhases
                           THEN d.microbatch ELSE d.my_id)
                    ELSE s1)

\* ------------------------------------------------------------------------
\* Stream scheduler: Sys::schedule, Sys::proceed_to_next_vnet_baseline,
\* Sys::insert_stream and the SchedulerUnit notifications.  The statistics
\* the handlers keep (latencies, chunk counts) are left out.
\* ------------------------------------------------------------------------
MaxStreams == 3

\* Dimensions of the topology; each has one active queue.
Dims == {0, 1}

\* Lists of phases generate_collective can give a chunk: one phase per
\* involved dimension, in forward or in reverse (All_Gather) order.
PhaseLists == {<<0>>, <<1>>, <<0, 1>>, <<1, 0>>}

Priorities == {0, 1}

\* queue_threshold, max_running_streams, ready_list_threshold and
\* intra-dimension policy of a run.
SchedulerConfigs ==
  {<<1, 1, 1, "FIFO">>, <<1, 2, 2, "FIFO">>, <<2, 2, 1, "FIFO">>,
   <<1, 3, 3, "RG">>, <<1, 2, 2, "SmallestFirst">>,
   <<1, 2, 2, "LessRemainingPhaseFirst">>}

\* priority, collective and initial_data_size of the streams of a run.  A
\* field the policy of the run never reads has one value only; the RG runs
\* have Reduce_Scatter and All_Gather streams of priority 0 and
\* Reduce_Scatter streams of priority 1.
StreamAttributes(policy) ==
  IF policy = "RG"
  THEN {[priority |-> 0, com_type |-> "Reduce_Scatter", initial_data_size |-> 1],
        [priority |-> 0, com_type |-> "All_Gather", initial_data_size |-> 1],
        [priority |-> 1, com_type |-> "Reduce_Scatter", initial_data_size |-> 1]}
  ELSE [priority : IF policy = "FIFO" THEN Priorities ELSE {0},
        com_type : {"All_Reduce"},
        initial_data_size : IF policy = "SmallestFirst" THEN {1, 2} ELSE {1}]

SchedState ==
  [streams |-> streams, ready_list |-> ready_list,
   active_Streams |-> active_Streams, running_streams |-> running_streams,
   total_running_streams |-> total_running_streams,
   first_phase_streams |-> first_phase_streams]

MinOf(a, b) == IF a < b THEN a ELSE b

Without(queue, s) == SelectSeq(queue, LAMBDA x : x # s)

\* A new StreamBaseline, as generate_collective builds it for one chunk.
StreamBaseline(phases, attr) ==
  [phases |-> phases, phases_to_go |-> phases, current_queue_id |-> -1,
   steps_finished |-> 0, initialized |-> FALSE, priority |-> attr.priority,
   current_com_type |-> attr.com_type,
   initial_data_size |-> attr.initial_data_size,
   state |-> "Created", executed |-> <<>>]

\* The stream_pointer loop shared by notify_stream_added and
\* notify_stream_removed: init() the first streams not yet initialized
\* while running_streams[vnet] < queue_threshold.
RECURSIVE InitStreams(_, _)
InitStreams(sc, vnet) ==
  LET q == sc.active_Streams[vnet]
      waiting == {k \in 1 .. Len(q) : ~sc.streams[q[k]].initialized}
  IN IF waiting = {} \/ sc.running_streams[vnet] >= queue_threshold
     THEN sc
     ELSE LET k == CHOOSE x \in waiting : \A y \in waiting : x <= y
              s == q[k]
          IN InitStreams(
               [sc EXCEPT !.streams[s].initialized = TRUE,
                          !.streams[s].state = "Executing",
                          !.streams[s].executed =
                             Append(@, sc.streams[s].current_queue_id),
                          !.running_streams[vnet] = @ + 1],
               vnet)

notify_stream_added(sc, vnet) == InitStreams(sc, vnet)

\* Do the streams a and b form a Reduce_Scatter / All_Gather pair.
ReduceGatherPair(a, b) ==
  {a.current_com_type, b.current_com_type} = {"Reduce_Scatter", "All_Gather"}

\* Does the scan of insert_stream for the new stream st pass the queued
\* stream qs: always when qs is initialized, else as the policy says.
Passes(qs, st) ==
  \/ qs.initialized
  \/ /\ intra_dimension_scheduling \in {"FIFO", "RG"}
     /\ qs.priority >= st.priority
  \/ /\ intra_dimension_scheduling = "SmallestFirst"
     /\ qs.initial_data_size < st.initial_data_size
  \/ /\ intra_dimension_scheduling = "LessRemainingPhaseFirst"
     /\ Len(qs.phases_to_go) < Len(st.phases_to_go)

\* The (1-based) position the scan from position at stops at.  RG does not
\* stop between the two streams of a Reduce_Scatter / All_Gather pair.
RECURSIVE ScanQueue(_, _, _, _)
ScanQueue(sc, queue, s, at) ==
  IF at > Len(queue) THEN at
  ELSE IF Passes(sc.streams[queue[at]], sc.streams[s])
  THEN ScanQueue(sc, queue, s, at + 1)
  ELSE IF /\ intra_dimension_scheduling = "RG"
          /\ at > 1
          /\ ReduceGatherPair(sc.streams[queue[at - 1]], sc.streams[queue[at]])
  THEN ScanQueue(sc, queue, s, at + 1)
  ELSE at

\* Faulty variant: the new stream goes to the head of the queue.
insert_stream_at_the_head(sc, queue, s) == <<s>> \o queue

\* Sys::insert_stream: the new stream goes where the scan stops.
insert_stream(sc, queue, s) ==
  LET at == ScanQueue(sc, queue, s, 1)
  IN SubSeq(queue, 1, at - 1) \o <<s>> \o SubSeq(queue, at, Len(queue))

RECURSIVE proceed_to_next_vnet_baseline(_, _)

\* At most num streams, and at most ready_list.size(), leave the ready list.
\* Each promoted stream is counted in first_phase_streams and
\* total_running_streams, the counters proceed_to_next_vnet_baseline later
\* decrements.
RECURSIVE schedule(_, _)
schedule(sc, num) ==
  IF num <= 0 \/ sc.ready_list = <<>> THEN sc
  ELSE LET s == Head(sc.ready_list)
           p == proceed_to_next_vnet_baseline(sc, s)
       IN schedule([p EXCEPT !.ready_list = Tail(@),
                             !.first_phase_streams = @ + 1,
                             !.total_running_streams = @ + 1],
                   num - 1)

\* The old queue has one running stream less; streams waiting in the ready
\* list are promoted up to max_running_streams, then the queue's next
\* streams are initialized.
notify_stream_removed(sc, vnet) ==
  LET r1 == [sc EXCEPT !.running_streams[vnet] = @ - 1]
      r2 == IF r1.ready_list # <<>>
               /\ r1.total_running_streams < max_running_streams
            THEN schedule(r1, max_running_streams - r1.total_running_streams)
            ELSE r1
  IN InitStreams(r2, vnet)

\* Faulty variant: the stream moves on to the last phase of its list.
next_phase_taking_the_last(st) ==
  [st EXCEPT !.steps_finished = @ + 1,
             !.phases_to_go = SubSeq(@, 1, Len(@) - 1),
             !.current_queue_id = st.phases_to_go[Len(st.phases_to_go)],
             !.initialized = FALSE,
             !.state = "Ready"]

\* The stream's fields when it moves on: steps_finished is incremented, the
\* next phase is taken off phases_to_go and names the new queue.
next_phase(st) ==
  [st EXCEPT !.steps_finished = @ + 1,
             !.phases_to_go = Tail(@),
             !.current_queue_id = Head(st.phases_to_go),
             !.initialized = FALSE,
             !.state = "Ready"]

\* A stream leaves the ready list or the phase it ran.  The completion
\* branch takes the statistics, notifies the dataset, decrements
\* total_running_streams and deletes the stream; only the advance branch
\* notifies the scheduler.
proceed_to_next_vnet_baseline(sc, s) ==
  LET st == sc.streams[s]
      old == st.current_queue_id
      \* 1. cleanup of the phase that ended
      c1 == IF st.steps_finished = 1
            THEN [sc EXCEPT !.first_phase_streams = @ - 1] ELSE sc
      c2 == IF old >= 0
            THEN [c1 EXCEPT !.active_Streams[old] = Without(@, s)] ELSE c1
  IN IF st.phases_to_go = <<>>
     THEN \* 2. the stream is complete
          [c2 EXCEPT !.streams[s].state = "Dead",
                     !.total_running_streams = @ - 1]
     ELSE \* 3. on to the next phase
          LET a1 == [c2 EXCEPT !.streams[s] = next_phase(st)]
              new == a1.streams[s].current_queue_id
              a2 == [a1 EXCEPT !.active_Streams[new] = insert_stream(a1, @, s)]
              a3 == IF old >= 0 THEN notify_stream_removed(a2, old) ELSE a2
          IN notify_stream_added(a3, new)

notify_stream_added_into_ready_list(sc) ==
  IF sc.first_phase_streams < ready_list_threshold
     /\ sc.total_running_streams < max_running_streams
  THEN schedule(sc, MinOf(ready_list_threshold - sc.first_phase_streams,
                          max_running_streams - sc.total_running_streams))
  ELSE sc

\* State of the scheduler after Sys::Sys.
InitScheduler(c) ==
  /\ queue_threshold = c[1]
  /\ max_running_streams = c[2]
  /\ ready_list_threshold = c[3]
  /\ intra_dimension_scheduling = c[4]
  /\ streams = <<>>
  /\ ready_list = <<>>
  /\ active_Streams = [d \in Dims |-> <<>>]
  /\ running_streams = [d \in Dims |-> 0]
  /\ total_running_streams = 0
  /\ first_phase_streams = 0

CommitSched(sc) ==
  /\ streams' = sc.streams
  /\ ready_list' = sc.ready_list
  /\ active_Streams' = sc.active_Streams
  /\ running_streams' = sc.running_streams
  /\ total_running_streams' = sc.total_running_streams
  /\ first_phase_streams' = sc.first_phase_streams
  /\ UNCHANGED <<queue_threshold, max_running_streams, ready_list_threshold,
                 intra_dimension_scheduling, fsm_vars, send_vars, gen_vars,
                 rdv_vars, evt_vars, thr_vars, pcap_vars, prio_vars>>

\* generate_collective, step 5: the stream of one chunk is appended to the
\* ready list and the scheduler is notified.
insert_into_ready_list ==
  /\ Len(streams) < MaxStreams
  /\ \E phases \in PhaseLists,
        attr \in StreamAttributes(intra_dimension_scheduling) :
       LET s == Len(streams) + 1
           sc == [SchedState EXCEPT
                    !.streams = Append(@, StreamBaseline(phases, attr)),
                    !.ready_list = Append(@, s)]
       IN CommitSched(notify_stream_added_into_ready_list(sc))

\* The collective algorithm of an initialized stream ends its phase and
\* hands the stream back to Sys.
StreamPhaseFinished ==
  \E s \in DOMAIN streams :
    /\ streams[s].state = "Executing"
    /\ CommitSched(proceed_to_next_vnet_baseline(SchedState, s))

\* ------------------------------------------------------------------------
\* Send serialisation: Sys::sim_send and the PacketSent handler
\* ------------------------------------------------------------------------
MaxSends == 4

\* The (dst, tag) pairs in use.
SendKeys == {<<3, 7>>, <<3, 8>>}

Delays == {0, 5}

SendState ==
  [is_there_pending_sends |-> is_there_pending_sends,
   pending_sends |-> pending_sends, NI_in_flight |-> NI_in_flight,
   NI_forwarded |-> NI_forwarded, send_calls |-> send_calls]

\* NI->sim_send: the backend takes the send.
NI_sim_send(sd, key, snd) ==
  [sd EXCEPT !.NI_in_flight[key] = @ \cup {snd},
             !.NI_forwarded[key] = Append(@, snd)]

\* Faulty variant: every send goes to the backend at once.
sim_send_unserialized(sd, delay, key) ==
  NI_sim_send([sd EXCEPT !.send_calls = Append(@, <<delay, key>>)],
              key, Len(sd.send_calls) + 1)

\* delay = 0 on a key not marked busy: mark it and send; every other send
\* is queued.  The send is identified by its position among the calls.
sim_send(sd, delay, key) ==
  LET snd == Len(sd.send_calls) + 1
      s1 == [sd EXCEPT !.send_calls = Append(@, <<delay, key>>)]
  IN IF delay = 0 /\ ~s1.is_there_pending_sends[key]
     THEN NI_sim_send([s1 EXCEPT !.is_there_pending_sends[key] = TRUE],
                      key, snd)
     ELSE [s1 EXCEPT !.pending_sends[key] = Append(@, snd)]

\* handleEvent(PacketSent) for a send on key.
handleEvent_PacketSent(sd, key) ==
  IF sd.pending_sends[key] # <<>>
  THEN NI_sim_send([sd EXCEPT !.pending_sends[key] = Tail(@)],
                   key, Head(sd.pending_sends[key]))
  ELSE [sd EXCEPT !.is_there_pending_sends[key] = FALSE]

InitSend ==
  /\ is_there_pending_sends = [k \in SendKeys |-> FALSE]
  /\ pending_sends = [k \in SendKeys |-> <<>>]
  /\ NI_in_flight = [k \in SendKeys |-> {}]
  /\ NI_forwarded = [k \in SendKeys |-> <<>>]
  /\ send_calls = <<>>

CommitSend(sd) ==
  /\ is_there_pending_sends' = sd.is_there_pending_sends
  /\ pending_sends' = sd.pending_sends
  /\ NI_in_flight' = sd.NI_in_flight
  /\ NI_forwarded' = sd.NI_forwarded
  /\ send_calls' = sd.send_calls
  /\ UNCHANGED <<fsm_vars, sched_vars, gen_vars, evt_vars, thr_vars, pcap_vars, prio_vars>>

\* A stream's algorithm calls sim_send.
SimSend ==
  /\ Len(send_calls) < MaxSends
  /\ \E delay \in Delays, key \in SendKeys :
       CommitSend(sim_send(SendState, delay, key))
  /\ UNCHANGED rdv_vars

\* The backend finishes a send and raises PacketSent.
PacketSent ==
  /\ \E key \in SendKeys : \E snd \in NI_in_flight[key] :
       CommitSend(handleEvent_PacketSent(
                    [SendState EXCEPT !.NI_in_flight[key] = @ \ {snd}], key))
  /\ UNCHANGED rdv_vars

\* ------------------------------------------------------------------------
\* Topology and collective generation: Sys::break_dimension,
\* Sys::determine_chunk_size and the phase list of Sys::generate_collective
\* ------------------------------------------------------------------------
MaxBytes == 9

\* physical_dims of the runs considered.
DimVectors == {<<8, 8>>, <<2, 4>>, <<4, 1, 2>>, <<6>>, <<2, 2, 2>>}

\* model_parallel_npu_group values a workload file may ask for.
GroupSizes == {1, 2, 4, 8, 16}

\* preferred-dataset-splits of the system file.
DatasetSplits == {1, 4}

CollectiveKinds == {"All_Reduce", "All_Gather", "Reduce_Scatter", "All_to_All"}

GenState ==
  [physical_dims |-> physical_dims, queues_per_dim |-> queues_per_dim,
   implementation_per_dimension |-> implementation_per_dimension,
   logical_broken_dims |-> logical_broken_dims,
   dimension_to_break |-> dimension_to_break]

RECURSIVE Product(_)
Product(dims) ==
  IF dims = <<>> THEN 1 ELSE Head(dims) * Product(Tail(dims))

InsertAt(seq, k, x) == SubSeq(seq, 1, k - 1) \o <<x>> \o SubSeq(seq, k, Len(seq))

\* The rebuild after a split of (1-based) dimension k into first_subdim and
\* second_subdim: a new queue in queues_per_dim, the implementation of
\* every collective cloned for the new dimension, the logical dimensions
\* saved in logical_broken_dims.
RebuildBroken(g, k, first_subdim, second_subdim) ==
  [g EXCEPT
     !.queues_per_dim = InsertAt(@, k, @[k]),
     !.implementation_per_dimension =
        [op \in DOMAIN @ |-> InsertAt(@[op], k, @[op][k])],
     !.logical_broken_dims =
        SubSeq(@, 1, k - 1) \o <<first_subdim, second_subdim>>
          \o SubSeq(@, k + 1, Len(@)),
     !.dimension_to_break = k - 1]

\* The loop of break_dimension from (1-based) dimension k on, all_npus
\* being the product of the dimensions before k: a dimension that keeps
\* the product below the target is passed, the first that takes it beyond
\* the target is split.
RECURSIVE BreakFrom(_, _, _, _)
BreakFrom(g, k, all_npus, target) ==
  IF k > Len(g.physical_dims) THEN [g EXCEPT !.dimension_to_break = -1]
  ELSE LET dim_size == g.physical_dims[k]
       IN IF all_npus * dim_size < target
          THEN BreakFrom(g, k + 1, all_npus * dim_size, target)
          ELSE IF all_npus * dim_size > target
          THEN LET first_subdim == target \div all_npus
                   second_subdim == dim_size \div first_subdim
               IN RebuildBroken(g, k, first_subdim, second_subdim)
          ELSE [g EXCEPT !.dimension_to_break = -1]

\* Sys::break_dimension; dimension_to_break is the value returned.
break_dimension(g, model_parallel_npu_group) ==
  BreakFrom(g, 1, 1, model_parallel_npu_group)

\* Sys::determine_chunk_size: an unsigned integer division.
determine_chunk_size(size, splits) == size \div splits

\* The chunks generate_collective cuts a message of size bytes into:
\* ceil(size / chunk_size) of them, the last one taking what is left.
\* With chunk_size = 0 the count is a division by zero and no chunk comes
\* out (stuck).
RECURSIVE CutChunks(_, _)
CutChunks(size, chunk_size) ==
  IF size = 0 THEN <<>>
  ELSE LET this == IF chunk_size < size THEN chunk_size ELSE size
       IN <<this>> \o CutChunks(size - this, chunk_size)

Chunking(size, splits) ==
  LET chunk_size == determine_chunk_size(size, splits)
  IN IF size > 0 /\ chunk_size = 0
     THEN [stuck |-> TRUE, chunks |-> <<>>]
     ELSE [stuck |-> FALSE, chunks |-> CutChunks(size, chunk_size)]

dim_mapper_ascending(kind, n) == [i \in 1 .. n |-> i]

\* dim_mapper: the order in which the n dimensions are traversed, reverse
\* for All_Gather.
dim_mapper(kind, n) ==
  IF kind = "All_Gather" THEN [i \in 1 .. n |-> n + 1 - i]
  ELSE [i \in 1 .. n |-> i]

\* Baseline: one phase of the collective per traversed dimension, leaving
\* out a dimension of size 1 and a dimension not in involved_dimensions.
\* A phase is named by its (0-based) dimension.
BaselinePhases(kind, dims, involved_dimensions_) ==
  LET order == dim_mapper(kind, Len(dims))
      taken == SelectSeq(order, LAMBDA d : dims[d] > 1 /\ involved_dimensions_[d])
  IN [i \in 1 .. Len(taken) |-> taken[i] - 1]

NoBatch == [kind |-> "none", size |-> 0, involved |-> <<>>, stuck |-> FALSE,
            active |-> FALSE, chunks |-> <<>>, phases |-> <<>>]

\* The batch of streams generate_collective builds: one stream per chunk,
\* each with the same list of phases; inactive without any phase.
StreamBatch(g, splits, kind, size, involved_dimensions_) ==
  LET c == Chunking(size, splits)
      phases == BaselinePhases(kind, g.logical_broken_dims, involved_dimensions_)
  IN [kind |-> kind, size |-> size, involved |-> involved_dimensions_,
      stuck |-> c.stuck, active |-> phases # <<>>,
      chunks |-> c.chunks, phases |-> phases]

\* State after Sys::Sys for one topology.
InitTopology(dims, splits) ==
  /\ physical_dims = dims
  /\ queues_per_dim = [i \in 1 .. Len(dims) |-> 1]
  /\ implementation_per_dimension =
       [op \in CollectiveKinds |-> [i \in 1 .. Len(dims) |-> "ring"]]
  /\ logical_broken_dims = dims
  /\ dimension_to_break = -2
  /\ preferred_dataset_splits = splits
  /\ last_batch = NoBatch

\* Workload::decode_involved_dimensions asks for the split once, while the
\* workload file is read.
BreakDimension ==
  /\ dimension_to_break = -2
  /\ last_batch = NoBatch
  /\ \E model_parallel_npu_group \in GroupSizes :
       LET g == break_dimension(GenState, model_parallel_npu_group)
       IN /\ queues_per_dim' = g.queues_per_dim
          /\ implementation_per_dimension' = g.implementation_per_dimension
          /\ logical_broken_dims' = g.logical_broken_dims
          /\ dimension_to_break' = g.dimension_to_break
  /\ UNCHANGED <<physical_dims, preferred_dataset_splits, last_batch,
                 fsm_vars, sched_vars, send_vars, rdv_vars, evt_vars,
                 thr_vars, pcap_vars, prio_vars>>

\* A layer asks for a collective.
GenerateCollective ==
  /\ last_batch = NoBatch
  /\ \E kind \in CollectiveKinds, size \in 0 .. MaxBytes,
        involved_dimensions_ \in [1 .. Len(logical_broken_dims) -> BOOLEAN] :
       last_batch' = StreamBatch(GenState, preferred_dataset_splits, kind,
                                 size, involved_dimensions_)
  /\ UNCHANGED <<physical_dims, queues_per_dim, implementation_per_dimension,
                 logical_broken_dims, dimension_to_break,
                 preferred_dataset_splits, fsm_vars, sched_vars, send_vars,
                 rdv_vars, evt_vars, thr_vars, pcap_vars, prio_vars>>

\* ------------------------------------------------------------------------
\* Rendezvous: Sys::rendezvous_sim_send, Sys::rendezvous_sim_recv and the
\* RendezvousSend handler
\* ------------------------------------------------------------------------
\* The tag of a control message is the tag of the payload plus this.
RND_OFFSET == 500000000

\* Size in bytes of a control message.
rendevouz_size == 8192

\* Sends of at least this many bytes go through the rendezvous.
RendezvousThreshold == 8192

MaxRendezvous == 3

\* Byte counts of the sends considered.
MessageSizes == {8191, 8192, 1048576}

RdvState ==
  [sd |-> SendState, rendezvous_recvs |-> rendezvous_recvs,
   control_wire |-> control_wire, control_received |-> control_received,
   send_bytes |-> send_bytes]

\* The control message that announces the receive of key = (peer, tag).
ControlMessage(key) ==
  [peer |-> key[1], tag |-> key[2] + RND_OFFSET, bytes |-> rendevouz_size]

\* sim_send without delay of count bytes.
SendNow(r, key, count) ==
  [r EXCEPT !.sd = sim_send(@, 0, key), !.send_bytes = Append(@, count)]

\* Faulty variant: the payload is sent without waiting for the receiver.
rendezvous_sim_send_without_handshake(r, key, count) ==
  [r EXCEPT !.sd = sim_send(@, 0, key), !.send_bytes = Append(@, count)]

\* Sys::rendezvous_sim_send: the payload is kept in a RendezvousSendData
\* and a receive for the control message of the receiver is posted.
rendezvous_sim_send(r, key, count) ==
  [r EXCEPT !.rendezvous_recvs =
     Append(@, [peer |-> key[1], tag |-> key[2] + RND_OFFSET,
                bytes |-> rendevouz_size,
                rsd |-> [key |-> key, count |-> count]])]

\* The send entry point of a stream: rendezvous for a large message, a
\* plain sim_send below the threshold.
front_end_sim_send(r, key, count) ==
  IF count >= RendezvousThreshold
  THEN rendezvous_sim_send(r, key, count)
  ELSE SendNow(r, key, count)

\* Sys::rendezvous_sim_recv on the peer: the control message leaves for
\* the sender.
rendezvous_sim_recv(r, key) ==
  [r EXCEPT !.control_wire = @ (+) SetToBag({ControlMessage(key)})]

\* The position of the first posted receive that matches the message.
RECURSIVE FirstMatch(_, _, _)
FirstMatch(recvs, msg, i) ==
  IF i > Len(recvs) THEN 0
  ELSE IF recvs[i].peer = msg.peer /\ recvs[i].tag = msg.tag THEN i
  ELSE FirstMatch(recvs, msg, i + 1)

\* handleEvent(RendezvousSend): the control message arrived at the receive
\* posted at position i; the send proper starts.
handleEvent_RendezvousSend(r, msg, i) ==
  LET rsd == r.rendezvous_recvs[i].rsd
  IN SendNow([r EXCEPT
                !.rendezvous_recvs =
                   SubSeq(@, 1, i - 1) \o SubSeq(@, i + 1, Len(@)),
                !.control_wire = @ (-) SetToBag({msg}),
                !.control_received = Append(@, msg)],
             rsd.key, rsd.count)

InitRendezvous ==
  /\ rendezvous_recvs = <<>>
  /\ control_wire = EmptyBag
  /\ control_received = <<>>
  /\ send_bytes = <<>>

CommitRendezvous(r) ==
  /\ CommitSend(r.sd)
  /\ rendezvous_recvs' = r.rendezvous_recvs
  /\ control_wire' = r.control_wire
  /\ control_received' = r.control_received
  /\ send_bytes' = r.send_bytes

\* A stream's algorithm sends count bytes to a peer.
FrontEndSend ==
  /\ Len(send_calls) + Len(rendezvous_recvs) < MaxRendezvous
  /\ \E key \in SendKeys, count \in MessageSizes :
       CommitRendezvous(front_end_sim_send(RdvState, key, count))

\* A peer posts the receive of a large message.
PeerRendezvousRecv ==
  /\ BagCardinality(control_wire) + Len(control_received) < MaxRendezvous
  /\ \E key \in SendKeys :
       CommitRendezvous(rendezvous_sim_recv(RdvState, key))

\* The backend delivers a control message to the receive posted for it.
ControlReceived ==
  \E msg \in BagToSet(control_wire) :
    LET i == FirstMatch(rendezvous_recvs, msg, 1)
    IN /\ i > 0
       /\ CommitRendezvous(handleEvent_RendezvousSend(RdvState, msg, i))

\* ------------------------------------------------------------------------
\* Event handling: Sys::try_register_event and Sys::call_events
\* ------------------------------------------------------------------------
MaxEvents == 4

MaxTick == 3

\* The delays (in cycles) events are registered with.
Cycles == {0, 1, 2}

EvtState ==
  [boostedTick |-> boostedTick, event_queue_by_tick |-> event_queue_by_tick,
   pending_events |-> pending_events, NS3_scheduled |-> NS3_scheduled,
   calling |-> calling, registered |-> registered, delivered |-> delivered]

\* Faulty variant: the event is put in front of the list of its tick.
try_register_event_in_front(ev, cycles) ==
  LET tick == ev.boostedTick + cycles
      event == Len(ev.registered) + 1
      should_schedule == tick \notin DOMAIN ev.event_queue_by_tick
      list == IF should_schedule THEN <<>> ELSE ev.event_queue_by_tick[tick]
  IN [ev EXCEPT
        !.event_queue_by_tick =
           [t \in DOMAIN @ \cup {tick} |->
              IF t = tick THEN <<event>> \o list ELSE @[t]],
        !.pending_events = @ + 1,
        !.NS3_scheduled = IF should_schedule THEN @ \cup {tick} ELSE @,
        !.registered = Append(@, tick)]

\* Sys::try_register_event: the event goes to the end of the list of tick
\* boostedTick() + cycles; a tick without a list gets one and a CallEvents
\* scheduled on NS-3.  Events are named by their order of registration.
try_register_event(ev, cycles) ==
  LET tick == ev.boostedTick + cycles
      event == Len(ev.registered) + 1
      should_schedule == tick \notin DOMAIN ev.event_queue_by_tick
      list == IF should_schedule THEN <<>> ELSE ev.event_queue_by_tick[tick]
  IN [ev EXCEPT
        !.event_queue_by_tick =
           [t \in DOMAIN @ \cup {tick} |->
              IF t = tick THEN Append(list, event) ELSE @[t]],
        !.pending_events = @ + 1,
        !.NS3_scheduled = IF should_schedule THEN @ \cup {tick} ELSE @,
        !.registered = Append(@, tick)]

\* Sys::call_events, step 1: is there a list for the current tick.
call_events_begin(ev) ==
  IF ev.boostedTick \in DOMAIN ev.event_queue_by_tick
  THEN [ev EXCEPT !.calling = 1]
  ELSE ev

\* Sys::call_events, steps 2-3: the next event of the list is called.
call_events_next(ev) ==
  LET event == ev.event_queue_by_tick[ev.boostedTick][ev.calling]
  IN [ev EXCEPT !.pending_events = @ - 1,
                !.delivered = Append(@, <<event, ev.boostedTick>>),
                !.calling = @ + 1]

\* Sys::call_events, step 5: the entry of the tick is erased.
call_events_end(ev) ==
  [ev EXCEPT
     !.event_queue_by_tick = [t \in DOMAIN @ \ {ev.boostedTick} |-> @[t]],
     !.calling = 0]

InitEvents ==
  /\ boostedTick = 0
  /\ event_queue_by_tick = << >>
  /\ pending_events = 0
  /\ NS3_scheduled = {}
  /\ calling = 0
  /\ registered = <<>>
  /\ delivered = <<>>

CommitEvents(ev) ==
  /\ boostedTick' = ev.boostedTick
  /\ event_queue_by_tick' = ev.event_queue_by_tick
  /\ pending_events' = ev.pending_events
  /\ NS3_scheduled' = ev.NS3_scheduled
  /\ calling' = ev.calling
  /\ registered' = ev.registered
  /\ delivered' = ev.delivered
  /\ UNCHANGED <<fsm_vars, sched_vars, send_vars, gen_vars, rdv_vars,
                 thr_vars, pcap_vars, prio_vars>>

\* A component of the node, or the callable being called, registers an
\* event.
RegisterEvent ==
  /\ Len(registered) < MaxEvents
  /\ \E cycles \in Cycles : CommitEvents(try_register_event(EvtState, cycles))

\* NS-3 reaches the earliest CallEvents it holds: handleEvent(CallEvents)
\* enters call_events at that tick.
CallEvents ==
  /\ calling = 0
  /\ \E tick \in NS3_scheduled :
       /\ \A t \in NS3_scheduled : tick <= t
       /\ CommitEvents(call_events_begin(
            [EvtState EXCEPT !.boostedTick = tick,
                             !.NS3_scheduled = @ \ {tick}]))

\* call_events calls the next event of the current tick.
CallNextEvent ==
  /\ calling > 0
  /\ calling <= Len(event_queue_by_tick[boostedTick])
  /\ CommitEvents(call_events_next(EvtState))

\* call_events reached the end of the list.
CallEventsEnd ==
  /\ calling > 0
  /\ calling > Len(event_queue_by_tick[boostedTick])
  /\ CommitEvents(call_events_end(EvtState))

\* Another NS-3 event (a packet) moves the time on, never beyond a
\* scheduled CallEvents.
TimePasses ==
  /\ calling = 0
  /\ boostedTick < MaxTick
  /\ \A t \in NS3_scheduled : boostedTick + 1 <= t
  /\ CommitEvents([EvtState EXCEPT !.boostedTick = @ + 1])

\* ------------------------------------------------------------------------
\* Thread safety: Sys::sysCriticalSection
\* ------------------------------------------------------------------------
MaxSections == 2

\* The backend threads of the process.
Threads == {1, 2, 3}

\* The structures a critical section is opened for.
SharedStructures == {"event_queue", "pending_sends", "is_there_pending_sends"}

\* A thread away from any critical section.
Outside == [at |-> "outside", touches |-> "nothing", sections |-> 0]

\* The constructor: one atomic exchange of the spin loop.  The thread is
\* inside once the exchange returned false, else it keeps spinning.
sysCriticalSection(flag, th, structure) ==
  IF flag
  THEN [flag |-> TRUE, th |-> [th EXCEPT !.at = "spinning",
                                           !.touches = structure]]
  ELSE [flag |-> TRUE, th |-> [th EXCEPT !.at = "inside",
                                          !.touches = structure,
                                          !.sections = @ + 1]]

\* ExitSection: the flag is released; the object lives on to the end of
\* its scope.
ExitSection(flag, th) ==
  [flag |-> FALSE, th |-> [th EXCEPT !.at = "exited"]]

\* The destructor does what ExitSection does, whether or not ExitSection
\* was called.
sysCriticalSection_destructor(flag, th) ==
  [flag |-> FALSE, th |-> [th EXCEPT !.at = "outside",
                                      !.touches = "nothing"]]

InitThreads ==
  /\ g_sys_inCriticalSection = FALSE
  /\ threads = [t \in Threads |-> Outside]

CommitThread(t, r) ==
  /\ g_sys_inCriticalSection' = r.flag
  /\ threads' = [threads EXCEPT ![t] = r.th]
  /\ UNCHANGED <<fsm_vars, sched_vars, send_vars, gen_vars, rdv_vars,
                 evt_vars, pcap_vars, prio_vars>>

\* A thread reaches a block that opens a critical section.
EnterSection ==
  \E t \in Threads, structure \in SharedStructures :
    /\ threads[t].at = "outside"
    /\ threads[t].sections < MaxSections
    /\ CommitThread(t, sysCriticalSection(g_sys_inCriticalSection,
                                          threads[t], structure))

\* A spinning thread tries the exchange again.
SpinSection ==
  \E t \in Threads :
    /\ threads[t].at = "spinning"
    /\ ~g_sys_inCriticalSection
    /\ CommitThread(t, sysCriticalSection(g_sys_inCriticalSection,
                                          threads[t], threads[t].touches))

\* The thread calls cs.ExitSection().
ExplicitExit ==
  \E t \in Threads :
    /\ threads[t].at = "inside"
    /\ CommitThread(t, ExitSection(g_sys_inCriticalSection, threads[t]))

\* The block ends and the section object is destroyed.
LeaveScope ==
  \E t \in Threads :
    /\ threads[t].at \in {"inside", "exited"}
    /\ CommitThread(t, sysCriticalSection_destructor(g_sys_inCriticalSection,
                                                     threads[t]))

\* ------------------------------------------------------------------------
\* The pcap sniffer: OpenPcap, ClosePcap, WritePacketToPcap and the debug
\* stream.  A capture file is the sequence of its frames;
\* the periodic flush is left out, a closed or destroyed writer has
\* flushed.
\* ------------------------------------------------------------------------
\* Calls of the sniffer one behaviour makes.
MaxPcapCalls == 5

FileNames == {"a.pcap", "b.pcap"}

\* A byte buffer is the sequence of its bytes; offsets count from 0 as in
\* the code.
Zeros(n) == [i \in 1 .. n |-> 0]

\* The buffer with bytes written over it from offset on (std::memcpy).
Overwritten(buf, offset, bytes) ==
  [i \in 1 .. Len(buf) |->
     IF i > offset /\ i <= offset + Len(bytes) THEN bytes[i - offset]
     ELSE buf[i]]

\* (uint16_t(buf[i]) << 8) | buf[i + 1]
Word(buf, i) == buf[i + 1] * 256 + buf[i + 2]

\* n zero bytes with the 16-bit word e at bytes 12-13 (none when the buffer
\* is shorter).
Buffers(sizes, ethertypes) ==
  {IF n < 14 THEN Zeros(n)
   ELSE Overwritten(Zeros(n), 12, <<e \div 256, e % 256>>) :
     n \in sizes, e \in ethertypes}

\* Packet payloads: Create<Packet>(n) is n zero bytes, 0 among the sizes;
\* a packet built from a buffer may carry an Ethernet frame.  The sizes
\* lie below 14, between 14 and the longer headers, and above them.
Payloads == Buffers({0, 20, 50}, {0, 2048})

\* Serialized CustomHeaders: L2 only (2 bytes), L2+L3, and L2+L3+L4, with
\* whatever their bytes 12-13 hold: an ethertype isEthernet knows, or not.
SerializedHeaders == Buffers({2, 22, 42}, {2048, 4660})

\* The isEthernet lambda of WritePacketToPcap.
isEthernet(buf) ==
  IF Len(buf) < 14 THEN FALSE
  ELSE Word(buf, 12) \in {2048, 34525, 2054, 34997}

\* The isIPv4 lambda of WritePacketToPcap.
isIPv4(buf, offset) ==
  IF Len(buf) < offset + 20 THEN FALSE
  ELSE (buf[offset + 1] \div 16) = 4 /\ (buf[offset + 1] % 16) >= 5

\* The sum of the 16-bit big-endian words of the first ihlBytes bytes.
RECURSIVE SumWords(_, _)
SumWords(ipHdr, ihlBytes) ==
  IF ihlBytes <= 0 THEN 0
  ELSE Word(ipHdr, ihlBytes - 2) + SumWords(ipHdr, ihlBytes - 2)

\* while (sum >> 16) sum = (sum & 0xFFFF) + (sum >> 16);
RECURSIVE FoldCarries(_)
FoldCarries(sum) ==
  IF sum \div 65536 > 0 THEN FoldCarries((sum % 65536) + (sum \div 65536))
  ELSE sum

\* Faulty variant: the carries are dropped instead of folded in.
ComputeIpv4HeaderChecksum_dropping_carries(ipHdr, ihlBytes) ==
  65535 - (SumWords(ipHdr, ihlBytes) % 65536)

\* ComputeIpv4HeaderChecksum: ~sum & 0xFFFF of the folded sum.
ComputeIpv4HeaderChecksum(ipHdr, ihlBytes) ==
  65535 - FoldCarries(SumWords(ipHdr, ihlBytes))

\* Byte orders of the host the simulator is built for.
ByteOrders == {"little", "big"}

\* htons: the two bytes swapped on a little-endian host, the value itself
\* on a big-endian one.
htons(x, order) ==
  IF order = "little" THEN (x % 256) * 256 + (x \div 256) ELSE x

\* The fixIpv4Checksum lambda of WritePacketToPcap.
fixIpv4Checksum(buf, offset, order) ==
  LET ihl == buf[offset + 1] % 16
      ihlBytes == ihl * 4
      zeroed == Overwritten(buf, offset + 10, <<0, 0>>)
      csum == ComputeIpv4HeaderChecksum(
                SubSeq(zeroed, offset + 1, Len(zeroed)), ihlBytes)
      csumNet == htons(csum, order)
  IN IF ihlBytes >= 20 /\ offset + ihlBytes <= Len(buf)
     THEN Overwritten(zeroed, offset + 10,
                      <<csumNet \div 256, csumNet % 256>>)
     ELSE buf

NoWriter == [file |-> "none"]

NoCapture == [file |-> "none", calls |-> 0, closed |-> FALSE]

\* No frame was handed to write_frame_with_timestamp yet.
NoFrame ==
  [hasEthernet |-> FALSE, hasIpv4 |-> FALSE, payload_size |-> -1,
   frame |-> <<>>]

PcapState ==
  [pcap_opened |-> pcap_opened, pcap_writer |-> pcap_writer,
   pcap_files |-> pcap_files, debug_mode |-> debug_mode,
   debug_ofs |-> debug_ofs, capture |-> capture,
   host_order |-> host_order, last_frame |-> last_frame]

\* if (debug_mode && debug_ofs.is_open()) debug_ofs << ... : one line.
debug_line(ps) ==
  IF ps.debug_mode /\ ps.debug_ofs.is_open
  THEN [ps EXCEPT !.debug_ofs.lines = @ + 1]
  ELSE ps

\* SetDebugMode: the default debug file is opened when none is open; opened
\* says whether the open succeeds.
SetDebugMode(ps, enable, opened) ==
  IF enable /\ ~ps.debug_ofs.is_open
  THEN IF opened
       THEN [ps EXCEPT !.debug_mode = TRUE,
                       !.debug_ofs = [is_open |-> TRUE, lines |-> 0]]
       ELSE [ps EXCEPT !.debug_mode = FALSE]
  ELSE [ps EXCEPT !.debug_mode = enable]

\* OpenPcap: a new writer replaces pcap_writer (the writer it held is
\* destroyed and so closed); opened says whether its open() succeeds.  A
\* failed open drops the writer and leaves pcap_opened as it was.
OpenPcap(ps, filename, opened) ==
  IF ~opened
  THEN [ps EXCEPT !.pcap_writer = NoWriter, !.capture = NoCapture]
  ELSE debug_line(
         [ps EXCEPT !.pcap_writer = [file |-> filename],
                    !.pcap_files[filename] = <<>>,
                    !.pcap_opened = TRUE,
                    !.capture = [file |-> filename, calls |-> 0,
                                 closed |-> FALSE]])

\* Faulty variant: the flag is cleared whether or not a writer is held.
ClosePcap_clearing_the_flag(ps) ==
  LET s1 == IF ps.pcap_opened
            THEN debug_line(
                   [ps EXCEPT !.pcap_writer = NoWriter,
                              !.pcap_opened = FALSE,
                              !.capture.closed = (ps.capture # NoCapture)])
            ELSE ps
  IN IF s1.debug_ofs.is_open
     THEN [s1 EXCEPT !.debug_ofs.is_open = FALSE]
     ELSE s1

\* ClosePcap
ClosePcap(ps) ==
  LET s1 == IF ps.pcap_opened /\ ps.pcap_writer # NoWriter
            THEN debug_line(
                   [ps EXCEPT !.pcap_writer = NoWriter,
                              !.pcap_opened = FALSE,
                              !.capture.closed = (ps.capture # NoCapture)])
            ELSE ps
  IN IF s1.debug_ofs.is_open
     THEN [s1 EXCEPT !.debug_ofs.is_open = FALSE]
     ELSE s1

\* Faulty variant: the frame is dropped.
write_frame_with_timestamp_dropping(ps, frame) == ps

\* write_frame_with_timestamp: writePacket on the open writer appends the
\* frame.
write_frame_with_timestamp(ps, frame) ==
  IF ~ps.pcap_opened \/ ps.pcap_writer = NoWriter THEN ps
  ELSE debug_line(
         [ps EXCEPT !.pcap_files[ps.pcap_writer.file] = Append(@, frame)])

\* The frame WritePacketToPcap builds from the packet bytes and the
\* serialized header: layer detection, checksum fix, synthesized Ethernet
\* header.
BuildFrame(pl, hdBuf, order) ==
  LET copied == IF isEthernet(hdBuf) /\ Len(pl) >= Len(hdBuf)
                THEN Overwritten(pl, 0, hdBuf)
                ELSE pl
      hasEthernet == isEthernet(pl) \/ isEthernet(hdBuf)
      ipOffset == IF hasEthernet /\ Len(copied) >= 14 THEN 14 ELSE 0
      hasIpv4 == isIPv4(copied, ipOffset)
      payload == IF hasIpv4 THEN fixIpv4Checksum(copied, ipOffset, order)
                 ELSE copied
      ethertype == IF hasIpv4 THEN 2048 ELSE 34997
  IN [hasEthernet |-> hasEthernet, hasIpv4 |-> hasIpv4,
      frame |-> IF ~hasEthernet
                THEN <<0, 0, 0, 0, 0, 1, 0, 0, 0, 0, 0, 2,
                       ethertype \div 256, ethertype % 256>> \o payload
                ELSE payload]

\* WritePacketToPcap: nothing without pcap_opened; else the frame is built,
\* the diagnostic line written and the frame handed to
\* write_frame_with_timestamp.
WritePacketToPcap(ps, payload, hdBuf) ==
  LET built == BuildFrame(payload, hdBuf, ps.host_order)
      counted == IF ps.capture # NoCapture /\ ~ps.capture.closed
                 THEN [ps EXCEPT !.capture.calls = @ + 1]
                 ELSE ps
      handed == [counted EXCEPT !.last_frame =
                   [hasEthernet |-> built.hasEthernet,
                    hasIpv4 |-> built.hasIpv4,
                    payload_size |-> Len(payload),
                    frame |-> built.frame]]
  IN IF ~ps.pcap_opened THEN counted
     ELSE write_frame_with_timestamp(debug_line(handed), built.frame)

\* The statics of the sniffer before any call, on a host of the given byte
\* order.
InitPcapOn(order) ==
  /\ pcap_opened = FALSE
  /\ pcap_writer = NoWriter
  /\ pcap_files = [f \in FileNames |-> <<>>]
  /\ debug_mode = FALSE
  /\ debug_ofs = [is_open |-> FALSE, lines |-> 0]
  /\ pcap_calls = <<>>
  /\ capture = NoCapture
  /\ host_order = order
  /\ last_frame = NoFrame

\* The sniffer unused, on a little-endian host.
InitPcap == InitPcapOn("little")

CommitPcap(ps, call) ==
  /\ pcap_opened' = ps.pcap_opened
  /\ pcap_writer' = ps.pcap_writer
  /\ pcap_files' = ps.pcap_files
  /\ debug_mode' = ps.debug_mode
  /\ debug_ofs' = ps.debug_ofs
  /\ capture' = ps.capture
  /\ host_order' = ps.host_order
  /\ last_frame' = ps.last_frame
  /\ pcap_calls' = Append(pcap_calls, call)
  /\ UNCHANGED <<fsm_vars, sched_vars, send_vars, gen_vars, rdv_vars,
                 evt_vars, thr_vars, prio_vars>>

CallSetDebugMode ==
  /\ Len(pcap_calls) < MaxPcapCalls
  /\ \E enable \in BOOLEAN, opened \in BOOLEAN :
       CommitPcap(SetDebugMode(PcapState, enable, opened), "SetDebugMode")

CallOpenPcap ==
  /\ Len(pcap_calls) < MaxPcapCalls
  /\ \E filename \in FileNames, opened \in BOOLEAN :
       CommitPcap(OpenPcap(PcapState, filename, opened),
                  IF opened THEN "OpenPcap" ELSE "OpenPcap failed")

CallClosePcap ==
  /\ Len(pcap_calls) < MaxPcapCalls
  /\ CommitPcap(ClosePcap(PcapState), "ClosePcap")

CallWritePacketToPcap ==
  /\ Len(pcap_calls) < MaxPcapCalls
  /\ \E payload \in Payloads, hdBuf \in SerializedHeaders :
       CommitPcap(WritePacketToPcap(PcapState, payload, hdBuf),
                  "WritePacketToPcap")

\* Calls of the sniffer in a behaviour that captures IP packets.
MaxFrameCalls == 2

\* An IPv4 header of ihl words: version/IHL, TOS, total length,
\* identification, flags (DF), TTL, protocol, the checksum bytes as the
\* sender left them, source 10.1.1.1, destination, and option bytes.
Ipv4Header(ihl, ident, protocol, dip, stale) ==
  <<64 + ihl, 0, 0, ihl * 4 + 8, ident \div 256, ident % 256, 64, 0,
    64, protocol, stale \div 256, stale % 256, 10, 1, 1, 1>>
    \o dip \o [i \in 1 .. 4 * (ihl - 5) |-> 1]

Ipv4Headers ==
  {Ipv4Header(ihl, ident, 17, dip, stale) :
     ihl \in {5, 6}, ident \in {0, 65535},
     dip \in {<<10, 1, 1, 2>>, <<255, 255, 255, 255>>},
     stale \in {0, 45542}}

\* Packets that carry an IPv4 header: bare, behind an Ethernet header, and
\* cut short inside the options.
IpPackets ==
  {h \o Zeros(8) : h \in Ipv4Headers}
    \cup {<<0, 0, 0, 0, 0, 3, 0, 0, 0, 0, 0, 4, 8, 0>> \o h \o Zeros(8) :
            h \in Ipv4Headers}
    \cup {SubSeq(h, 1, 20) : h \in Ipv4Headers}

CallWriteIpPacket ==
  /\ Len(pcap_calls) < MaxFrameCalls
  /\ \E payload \in IpPackets \cup Payloads, hdBuf \in SerializedHeaders :
       CommitPcap(WritePacketToPcap(PcapState, payload, hdBuf),
                  "WritePacketToPcap")

\* ------------------------------------------------------------------------
\* Stream priorities: Sys::get_priority, called for each stream
\* Sys::generate_collective creates.
\* ------------------------------------------------------------------------
\* Streams one behaviour issues.
MaxIssued == 4

\* SchedulingPolicy values a collective is issued with: the forward pass
\* passes None, the input gradient LIFO, the weight gradient FIFO.
SchedulingPolicies == {"None", "FIFO", "LIFO", "HIGHEST"}

\* Values of Sys::scheduling_policy.
SysPolicies == {"LIFO", "FIFO"}

\* Sys::get_priority: the sentinel for HIGHEST; else priority_counter,
\* incremented when the scheduling_policy of the Sys is LIFO and
\* decremented when it is FIFO.
get_priority(policy, counter, pref_scheduling) ==
  IF pref_scheduling = "HIGHEST"
  THEN [ret |-> 100000000, counter |-> counter]
  ELSE IF policy = "LIFO"
  THEN [ret |-> counter, counter |-> counter + 1]
  ELSE [ret |-> counter, counter |-> counter - 1]

InitPriority ==
  /\ scheduling_policy = "FIFO"
  /\ priority_counter = 0
  /\ issued = <<>>

\* Sys::generate_collective gives a new stream its priority.
IssueStream ==
  /\ Len(issued) < MaxIssued
  /\ \E pref_scheduling \in SchedulingPolicies :
       LET p == get_priority(scheduling_policy, priority_counter,
                             pref_scheduling)
       IN /\ priority_counter' = p.counter
          /\ issued' = Append(issued, [policy |-> pref_scheduling,
                                       priority |-> p.ret])
          /\ UNCHANGED <<scheduling_policy, fsm_vars, sched_vars, send_vars,
                         gen_vars, rdv_vars, evt_vars, thr_vars, pcap_vars>>

\* ------------------------------------------------------------------------
\* Specifications
\* ------------------------------------------------------------------------
\* No stream and no send exists yet: the scheduler and the send maps as
\* the Sys constructor leaves them.
SchedulerAtRest == InitScheduler(<<1, 1, 1, "FIFO">>)

\* A two-dimensional topology on which nothing was generated yet.
TopologyAtRest == InitTopology(<<2, 2>>, 1)

\* The workload has been fired and not yet run.
WorkloadAtRest ==
  InitWorkload(CHOOSE file \in WorkloadFiles : file.name = "tp2")

\* The node running a workload file.
Init ==
  /\ \E file \in WorkloadFiles : InitWorkload(file)
  /\ SchedulerAtRest
  /\ InitSend
  /\ TopologyAtRest
  /\ InitRendezvous
  /\ InitEvents
  /\ InitThreads
  /\ InitPcap
  /\ InitPriority

Next == CallWorkloadEvent \/ CallLayerEvent \/ notify_stream_finished

Spec == Init /\ [][Next]_vars

\* The same node under a kernel that calls every registered event in the
\* end (Sys::call_events runs at each tick for which an event is registered)
\* and a backend that finishes every stream it was given.
SpecLive ==
  /\ Init
  /\ [][Next]_vars
  /\ WF_vars(CallWorkloadEvent)
  /\ WF_vars(CallLayerEvent)
  /\ WF_vars(notify_stream_finished)

\* The node running a workload file of the DATA policy.
InitData ==
  /\ \E file \in DataWorkloadFiles : InitWorkload(file)
  /\ SchedulerAtRest
  /\ InitSend
  /\ TopologyAtRest
  /\ InitRendezvous
  /\ InitEvents
  /\ InitThreads
  /\ InitPcap
  /\ InitPriority

SpecData == InitData /\ [][Next]_vars

\* The node running a workload file with pipeline parallelism.
InitPipeline ==
  /\ \E file \in PipelineWorkloadFiles : InitWorkload(file)
  /\ SchedulerAtRest
  /\ InitSend
  /\ TopologyAtRest
  /\ InitRendezvous
  /\ InitEvents
  /\ InitThreads
  /\ InitPcap
  /\ InitPriority

SpecPipeline == InitPipeline /\ [][Next]_vars

\* The node's scheduler under any sequence of generated streams.
InitSched ==
  /\ WorkloadAtRest
  /\ \E c \in SchedulerConfigs : InitScheduler(c)
  /\ InitSend
  /\ TopologyAtRest
  /\ InitRendezvous
  /\ InitEvents
  /\ InitThreads
  /\ InitPcap
  /\ InitPriority

NextSched == insert_into_ready_list \/ StreamPhaseFinished

SpecSched == InitSched /\ [][NextSched]_vars

\* The node's send path under any sequence of sim_send calls.
InitSendPath ==
  /\ WorkloadAtRest
  /\ SchedulerAtRest
  /\ InitSend
  /\ TopologyAtRest
  /\ InitRendezvous
  /\ InitEvents
  /\ InitThreads
  /\ InitPcap
  /\ InitPriority

NextSend == SimSend \/ PacketSent

SpecSend == InitSendPath /\ [][NextSend]_vars

\* The send path over a backend that raises PacketSent for every send it
\* was given.
SpecSendLive ==
  /\ InitSendPath
  /\ [][NextSend]_vars
  /\ WF_vars(PacketSent)

\* The node's topology and the collectives generated on it.
InitGen ==
  /\ WorkloadAtRest
  /\ SchedulerAtRest
  /\ InitSend
  /\ \E dims \in DimVectors, splits \in DatasetSplits :
       InitTopology(dims, splits)
  /\ InitRendezvous
  /\ InitEvents
  /\ InitThreads
  /\ InitPcap
  /\ InitPriority

NextGen == BreakDimension \/ GenerateCollective

SpecGen == InitGen /\ [][NextGen]_vars

\* The node's sends to its peers, direct and through the rendezvous.
InitRendezvousPath ==
  /\ WorkloadAtRest
  /\ SchedulerAtRest
  /\ InitSend
  /\ TopologyAtRest
  /\ InitRendezvous
  /\ InitEvents
  /\ InitThreads
  /\ InitPcap
  /\ InitPriority

NextRendezvous ==
  FrontEndSend \/ PeerRendezvousRecv \/ ControlReceived \/ PacketSent

SpecRendezvous == InitRendezvousPath /\ [][NextRendezvous]_vars

\* The node's event queue under any sequence of registrations.
InitEventPath ==
  /\ WorkloadAtRest
  /\ SchedulerAtRest
  /\ InitSend
  /\ TopologyAtRest
  /\ InitRendezvous
  /\ InitEvents
  /\ InitThreads
  /\ InitPcap
  /\ InitPriority

NextEvents ==
  RegisterEvent \/ CallEvents \/ CallNextEvent \/ CallEventsEnd \/ TimePasses

SpecEvents == InitEventPath /\ [][NextEvents]_vars

\* The backend threads of the process around their critical sections.
InitThreadPath ==
  /\ WorkloadAtRest
  /\ SchedulerAtRest
  /\ InitSend
  /\ TopologyAtRest
  /\ InitRendezvous
  /\ InitEvents
  /\ InitThreads
  /\ InitPcap
  /\ InitPriority

NextThreads == EnterSection \/ SpinSection \/ ExplicitExit \/ LeaveScope

SpecThreads == InitThreadPath /\ [][NextThreads]_vars

\* The sniffer driven by its callers.
InitPcapPath ==
  /\ WorkloadAtRest
  /\ SchedulerAtRest
  /\ InitSend
  /\ TopologyAtRest
  /\ InitRendezvous
  /\ InitEvents
  /\ InitThreads
  /\ InitPcap
  /\ InitPriority

NextPcap ==
  CallSetDebugMode \/ CallOpenPcap \/ CallClosePcap \/ CallWritePacketToPcap

SpecPcap == InitPcapPath /\ [][NextPcap]_vars

\* The Sys, built with either scheduling policy, issuing streams.
InitPriorityPath ==
  /\ WorkloadAtRest
  /\ SchedulerAtRest
  /\ InitSend
  /\ TopologyAtRest
  /\ InitRendezvous
  /\ InitEvents
  /\ InitThreads
  /\ InitPcap
  /\ scheduling_policy \in SysPolicies
  /\ priority_counter = 0
  /\ issued = <<>>

NextPriority == IssueStream

SpecPriority == InitPriorityPath /\ [][NextPriority]_vars

\* The sniffer capturing IP packets, on a host of either byte order.
InitFrame ==
  /\ WorkloadAtRest
  /\ SchedulerAtRest
  /\ InitSend
  /\ TopologyAtRest
  /\ InitRendezvous
  /\ InitEvents
  /\ InitThreads
  /\ \E order \in ByteOrders : InitPcapOn(order)
  /\ InitPriority

NextFrame == CallOpenPcap \/ CallWriteIpPacket

SpecFrame == InitFrame /\ [][NextFrame]_vars

\* ------------------------------------------------------------------------
\* Properties of the Workload FSM
\* ------------------------------------------------------------------------
\* The workload file has no recompute-trigger layer.
NoRecompute ==
  \A l \in DOMAIN layers : ~Lyr(l).needs_fwd_in_bckwd_initiation

Position == <<workload.current_state, workload.index>>

\* C5: report()/workload_finished() happens only with pass_counter =
\* TOTAL_PASS and streams_injected = streams_finished; as long as the
\* counters differ the FSM stays in Wait_For_Sim_Finish and reports nothing.
C5_ReportOnlyWhenAllStreamsFinished ==
  [][ /\ reports' # reports =>
           /\ workload'.pass_counter = TOTAL_PASS
           /\ streams_injected' = streams_finished'
           /\ workload'.current_state = "Wait_For_Sim_Finish"
      /\ (workload.current_state = "Wait_For_Sim_Finish"
          /\ streams_injected' # streams_finished') =>
           /\ workload'.current_state = "Wait_For_Sim_Finish"
           /\ reports' = reports /\ reports = 0 ]_vars

\* The FSM waited for outstanding streams and reported afterwards.
C5_Witness ==
  /\ reports = 1
  /\ workload.registered_for_finished_streams
  /\ streams_injected > 0

\* C6: without checkpointing the FSM moves Forward_Pass 0..S-1, then for
\* i = S-1..0 Input_Gradient i, Weight_Gradient i; Weight_Gradient at layer 0
\* is followed by Forward_Pass at layer 0 with pass_counter one higher (and
\* pass_counter changes nowhere else).
C6_LayerOrderWithoutCheckpointing ==
  [][ (NoRecompute /\ Position' # Position) =>
        LET s == workload.current_state
            i == workload.index
            s2 == workload'.current_state
            i2 == workload'.index
            p == workload.pass_counter
            p2 == workload'.pass_counter
        IN \/ s = "Forward_Pass" /\ i < SIZE - 1 /\ p < TOTAL_PASS
              /\ s2 = "Forward_Pass" /\ i2 = i + 1 /\ p2 = p
           \/ s = "Forward_Pass" /\ i = SIZE - 1 /\ p < TOTAL_PASS
              /\ s2 = "Input_Gradient" /\ i2 = i /\ p2 = p
           \/ s = "Input_Gradient"
              /\ s2 = "Weight_Gradient" /\ i2 = i /\ p2 = p
           \/ s = "Weight_Gradient" /\ i > 0
              /\ s2 = "Input_Gradient" /\ i2 = i - 1 /\ p2 = p
           \/ s = "Weight_Gradient" /\ i = 0
              /\ s2 = "Forward_Pass" /\ i2 = 0 /\ p2 = p + 1
           \/ s = "Forward_Pass" /\ i = 0 /\ p = TOTAL_PASS
              /\ s2 = "Wait_For_Sim_Finish" /\ i2 = 0 /\ p2 = p ]_vars

\* A second pass has begun in a workload of several layers.
C6_Witness ==
  /\ NoRecompute /\ SIZE > 1
  /\ workload.pass_counter = 1
  /\ workload.current_state = "Weight_Gradient" /\ workload.index = 0

\* C7: while the weight-gradient dataset map of layer i is non-empty, the
\* forward pass of layer i has neither loaded its compute delay nor issued
\* its collective.
C7_ForwardWaitsForWeightGradient ==
  (workload.current_state = "Forward_Pass"
   /\ DatasetMap(NodeState, workload.index, "wg") # {})
  => (~workload.delay_loaded /\ ~workload.collective_issued
      /\ workload.counter = 0)

\* The forward pass of a later pass is held by the weight-gradient
\* collective of the pass before.
C7_Witness ==
  /\ workload.current_state = "Forward_Pass"
  /\ workload.pass_counter >= 1
  /\ DatasetMap(NodeState, workload.index, "wg") # {}
  /\ layers[workload.index].started_waiting_for["wg"] = 1

\* The FSM has issued the Blocking collective of phase ph at its layer and
\* the collective is still in the layer's dataset map.
BlockingOutstanding(ph) ==
  /\ workload.collective_issued
  /\ DatasetMap(NodeState, workload.index, ph) # {}
  /\ \/ ph = "fwd" /\ workload.current_state \in
                        {"Forward_Pass", "Forward_In_BackPass"}
     \/ ph = "ig" /\ workload.current_state = "Input_Gradient"

\* C8: with a Blocking forward or input-gradient collective of layer i
\* outstanding, a step changes the layer index or the state only if it
\* empties layer i's dataset map for that phase.
C8_BlockingBarrierHolds ==
  [][ \A ph \in {"fwd", "ig"} :
        (BlockingOutstanding(ph) /\ Position' # Position)
          => \A d \in datasets' :
               ~(d.layer = workload.index /\ d.phase = ph) ]_vars

\* A Blocking collective is outstanding while a collective of another layer
\* is about to complete.
C8_Witness ==
  /\ \E ph \in {"fwd", "ig"} : BlockingOutstanding(ph)
  /\ \E e \in BagToSet(event_queue) :
       e.callable \notin {"workload", ToString(workload.index)}

\* C9: the step that issues the weight-gradient collective of layer i also
\* leaves layer i (no wait for it), and no step leaves Weight_Gradient at
\* layer i while layer i's input-gradient dataset map is non-empty.
C9_WeightGradientNonBlocking ==
  [][ /\ (workload.current_state = "Weight_Gradient"
          /\ last_issue' # last_issue)
         => Position' # Position
      /\ (workload.current_state = "Weight_Gradient"
          /\ Position' # Position)
         => DatasetMap(NodeState, workload.index, "ig") = {} ]_vars

\* The FSM is below layer i while layer i's weight-gradient collective is
\* still outstanding.
C9_Witness ==
  /\ workload.current_state \in {"Input_Gradient", "Weight_Gradient"}
  /\ \E d \in datasets : d.phase = "wg" /\ d.layer > workload.index

\* The nearest checkpoint layer at or below layer t.
RECURSIVE NearestCheckpoint(_)
NearestCheckpoint(t) ==
  IF t <= 0 \/ Lyr(t).is_checkpoint THEN t ELSE NearestCheckpoint(t - 1)

\* C10: when Input_Gradient resumes at the trigger layer t after the
\* recomputation, the forward pass has run for every layer c..t in ascending
\* order, c being the nearest checkpoint layer at or below t.
C10_RecomputationRunsThroughTrigger ==
  (/\ workload.current_state = "Input_Gradient"
   /\ workload.checkpoint_initiated
   /\ workload.index < SIZE)
  => LET t == workload.index
         c == NearestCheckpoint(t)
     IN fwd_in_bckwd_log = [k \in 1 .. (t - c + 1) |-> c + k - 1]

\* ------------------------------------------------------------------------
\* Properties of the stream scheduler
\* ------------------------------------------------------------------------
RECURSIVE SumOver(_, _)
SumOver(f, D) ==
  IF D = {} THEN 0
  ELSE LET d == CHOOSE x \in D : TRUE IN f[d] + SumOver(f, D \ {d})

\* C1: running_streams[d] <= queue_threshold for every dimension d, and
\* both the sum over d of running_streams[d] and total_running_streams are
\* <= max_running_streams, in every reachable state.
C1_RunningStreamsWithinThresholds ==
  /\ \A d \in Dims : running_streams[d] <= queue_threshold
  /\ SumOver(running_streams, Dims) <= max_running_streams
  /\ total_running_streams <= max_running_streams

\* How often stream s sits in the active queues.
Queued(q, s) ==
  SumOver([d \in Dims |-> Len(SelectSeq(q[d], LAMBDA x : x = s))], Dims)

\* C4: the phases a stream runs are a prefix of its generated list, taken
\* one at a time (one more per step at most, the stream in one queue at
\* most, a phase started only after the one before was left);
\* steps_finished never decreases, and a destroyed stream has
\* steps_finished = |phases| with every phase run.
C4_PhasesInGeneratedOrder ==
  [][ \A s \in DOMAIN streams' :
        LET st == streams'[s]
        IN /\ Len(st.executed) <= Len(st.phases)
           /\ st.executed = SubSeq(st.phases, 1, Len(st.executed))
           /\ Queued(active_Streams', s) <= 1
           /\ st.steps_finished \in
                {Len(st.executed), Len(st.executed) + 1} \cap
                  (0 .. Len(st.phases))
           /\ s \in DOMAIN streams =>
                /\ st.steps_finished >= streams[s].steps_finished
                /\ st.steps_finished <= streams[s].steps_finished + 1
                /\ Len(st.executed) <= Len(streams[s].executed) + 1
           /\ st.state = "Dead" =>
                /\ st.steps_finished = Len(st.phases)
                /\ st.executed = st.phases ]_vars

\* A stream of two phases in reverse dimension order ran to its end while
\* another stream existed.
C4_Witness ==
  \E s \in DOMAIN streams :
    /\ streams[s].state = "Dead"
    /\ streams[s].phases = <<1, 0>>
    /\ Len(streams) >= 2

\* ------------------------------------------------------------------------
\* Properties of the send serialisation
\* ------------------------------------------------------------------------
\* C2: per key (dst, tag) at most one send is in flight at the backend; a
\* sim_send on a key with a send in flight is queued and forwards nothing;
\* a queued send is forwarded only by the PacketSent step of the send in
\* flight before it, and is then the only one in flight.
C2_OneSendInFlightPerKey ==
  [][ \A key \in SendKeys :
        /\ Cardinality(NI_in_flight'[key]) <= 1
        /\ (/\ NI_in_flight[key] # {}
            /\ Len(send_calls') = Len(send_calls) + 1
            /\ send_calls'[Len(send_calls')][2] = key)
           => /\ NI_forwarded'[key] = NI_forwarded[key]
              /\ NI_in_flight'[key] = NI_in_flight[key]
              /\ pending_sends'[key] =
                   Append(pending_sends[key], Len(send_calls'))
        /\ (/\ NI_forwarded'[key] # NI_forwarded[key]
            /\ pending_sends[key] # <<>>
            /\ pending_sends'[key] = Tail(pending_sends[key]))
           => /\ send_calls' = send_calls
              /\ Cardinality(NI_in_flight[key]) = 1
              /\ NI_in_flight'[key] = {Head(pending_sends[key])}
              /\ NI_in_flight'[key] # NI_in_flight[key] ]_vars

\* After two sends of a key went to the backend one after the other, the
\* second is in flight and a third waits in the queue.
C2_Witness ==
  \E key \in SendKeys :
    /\ Len(NI_forwarded[key]) = 2
    /\ Cardinality(NI_in_flight[key]) = 1
    /\ pending_sends[key] # <<>>
    /\ \A i \in 1 .. 3 : send_calls[i] = <<0, key>>

\* C3: per key (dst, tag) the backend receives the sends in the order of
\* their sim_send calls.
C3_ForwardedInCallOrder ==
  \A key \in SendKeys :
    \A i, j \in DOMAIN NI_forwarded[key] :
      i < j => NI_forwarded[key][i] < NI_forwarded[key][j]

\* ------------------------------------------------------------------------
\* Properties of the collectives the FSM issues
\* ------------------------------------------------------------------------
\* C11: a collective is issued as (None, Blocking) in the forward phase,
\* recomputation included, as (LIFO, Blocking) in the input-gradient phase
\* and as (FIFO, Non_Blocking) in the weight-gradient phase, and in no
\* other combination.
C11_PolicyAndBarrierOfEachPhase ==
  last_issue # NoIssue =>
    <<last_issue.phase, last_issue.policy, last_issue.barrier>> \in
      { <<"fwd", "None", "Blocking">>,
        <<"ig", "LIFO", "Blocking">>,
        <<"wg", "FIFO", "Non_Blocking">> }

\* A weight-gradient collective was issued after a recomputation had issued
\* forward collectives.
C11_Witness ==
  /\ last_issue.phase = "wg"
  /\ fwd_in_bckwd_log # <<>>
  /\ workload.current_state = "Input_Gradient"

\* C12: a forward collective, issued in Forward_Pass or in
\* Forward_In_BackPass, has size 0 or at least 4096; the layer's size is
\* 4096 where the workload file gives a size in (0, 4096) and is the
\* file's size otherwise.
C12_ForwardSizeFloor ==
  (last_issue # NoIssue /\ last_issue.phase = "fwd") =>
    LET bytes == Lyr(last_issue.layer).fwd_pass_comm_size
    IN /\ last_issue.size = 0 \/ last_issue.size >= 4096
       /\ last_issue.size =
            IF bytes > 0 /\ bytes < 4096 THEN 4096 ELSE bytes

\* The recomputation issued the forward collective of a layer whose file
\* size is below 4096.
C12_Witness ==
  /\ workload.current_state = "Forward_In_BackPass"
  /\ workload.collective_issued
  /\ last_issue.phase = "fwd"
  /\ last_issue.layer = workload.index
  /\ Lyr(workload.index).fwd_pass_comm_size \in 1 .. 4095

\* The collective of layer l in phase ph gives no active batch: the layer
\* has no collective there (None, zero bytes) or no dimension takes part.
InactiveBatch(l, ph) ==
  comm_type(l, ph) = "None" \/ ~involved_dimensions(l, ph)

Participating(dims, involved) ==
  {d \in 0 .. (Len(dims) - 1) : involved[d + 1] /\ dims[d + 1] > 1}

RECURSIVE SumSeq(_)
SumSeq(seq) == IF seq = <<>> THEN 0 ELSE Head(seq) + SumSeq(Tail(seq))

\* C15: the sizes of the chunks of a generated batch sum to the size of
\* the message, for every message size.
C15_ChunksSumToMessageSize ==
  last_batch # NoBatch => SumSeq(last_batch.chunks) = last_batch.size

\* The step in which break_dimension is called with the given group size.
BreakCall(model_parallel_npu_group) ==
  /\ dimension_to_break = -2
  /\ GenState' = break_dimension(GenState, model_parallel_npu_group)

\* C16: for every dimension vector and every target group size,
\* break_dimension keeps the product of the dimensions equal to the node
\* count, and the two dimensions (a, b) of a split satisfy a * b = the split
\* dimension with a = target / (product of the dimensions before it).
C16_BreakKeepsNodeCount ==
  [][\A target \in GroupSizes :
       BreakCall(target) =>
         /\ Product(logical_broken_dims') = Product(physical_dims)
         /\ dimension_to_break' >= 0 =>
              LET k == dimension_to_break' + 1
                  a == logical_broken_dims'[k]
                  b == logical_broken_dims'[k + 1]
              IN /\ a * b = physical_dims[k]
                 /\ a = target \div Product(SubSeq(physical_dims, 1, k - 1))]_vars

\* C17: on the dimensions [8,8], break_dimension(16) splits dimension 0 and
\* leaves [2,4,8], and the queue layout and the topology list of every
\* operation grow by exactly one entry.
C17_EightByEightSplitInFront ==
  [][(physical_dims = <<8, 8>> /\ BreakCall(16)) =>
       /\ logical_broken_dims' = <<2, 4, 8>>
       /\ dimension_to_break' = 0
       /\ Len(queues_per_dim') = Len(queues_per_dim) + 1
       /\ \A op \in CollectiveKinds :
            Len(implementation_per_dimension'[op]) =
              Len(implementation_per_dimension[op]) + 1]_vars

\* ------------------------------------------------------------------------
\* Properties of the rendezvous
\* ------------------------------------------------------------------------
\* The sim_send calls of key made so far that carry at least 8192 bytes.
LargeSends(calls, bytes, key) ==
  {snd \in DOMAIN calls : calls[snd][2] = key /\ bytes[snd] >= 8192}

\* The control messages of key delivered so far.
ControlsOf(received, key) ==
  {i \in DOMAIN received :
     received[i] = [peer |-> key[1], tag |-> key[2] + 500000000,
                    bytes |-> 8192]}

\* The step calls sim_send for key.
NewSendOn(key) ==
  /\ Len(send_calls') = Len(send_calls) + 1
  /\ send_calls'[Len(send_calls')][2] = key

\* C18: the payload of a rendezvous send reaches the backend only after
\* the sender received the receiver's control message of 8192 bytes with
\* tag + 500000000; a send below the threshold is forwarded directly, with
\* no control message.
C18_PayloadAfterControlMessage ==
  [][\A key \in SendKeys :
       /\ \A i \in DOMAIN NI_forwarded'[key] :
            LET snd == NI_forwarded'[key][i]
            IN send_bytes'[snd] >= 8192 =>
                 Cardinality({l \in LargeSends(send_calls', send_bytes', key) :
                                l <= snd})
                   <= Cardinality(ControlsOf(control_received', key))
       /\ (NewSendOn(key) /\ send_bytes'[Len(send_calls')] >= 8192) =>
            /\ control_received' =
                 Append(control_received,
                        [peer |-> key[1], tag |-> key[2] + 500000000,
                         bytes |-> 8192])
            /\ Len(rendezvous_recvs') = Len(rendezvous_recvs) - 1
       /\ (NewSendOn(key) /\ send_bytes'[Len(send_calls')] < 8192) =>
            /\ control_received' = control_received
            /\ rendezvous_recvs' = rendezvous_recvs
            /\ control_wire' = control_wire
            /\ ~is_there_pending_sends[key] =>
                 NI_forwarded'[key] =
                   Append(NI_forwarded[key], Len(send_calls'))]_vars

\* A send of 1,048,576 bytes went to the backend after its control message
\* and a send of 8191 bytes went directly, while a second large send still
\* waits for the receiver.
C18_Witness ==
  \E key \in SendKeys :
    /\ \E snd \in DOMAIN send_calls :
         /\ send_bytes[snd] = 1048576
         /\ \E i \in DOMAIN NI_forwarded[key] : NI_forwarded[key][i] = snd
    /\ \E snd \in DOMAIN send_calls :
         /\ send_bytes[snd] = 8191
         /\ \E i \in DOMAIN NI_forwarded[key] : NI_forwarded[key][i] = snd
    /\ Len(control_received) = 1
    /\ rendezvous_recvs # <<>>

\* ------------------------------------------------------------------------
\* Properties of the queue insertion
\* ------------------------------------------------------------------------
\* The position of stream s in the queue (0 when it is not there).
PositionIn(queue, s) ==
  IF \E k \in DOMAIN queue : queue[k] = s
  THEN CHOOSE k \in DOMAIN queue : queue[k] = s
  ELSE 0

\* C19: in every per-dimension queue and under every policy the initialized
\* streams form the head of the queue, and a stream that enters the queue
\* is never placed ahead of a stream that was already initialized.
C19_InitializedStreamsStayAtHead ==
  [][\A d \in Dims :
       LET before == active_Streams[d]
           after == active_Streams'[d]
       IN /\ \A i, j \in DOMAIN after :
               (i < j /\ streams'[after[j]].initialized)
                 => streams'[after[i]].initialized
          /\ \A s \in DOMAIN streams', t \in DOMAIN streams :
               (/\ PositionIn(after, s) > 0
                /\ PositionIn(before, s) = 0
                /\ PositionIn(before, t) > 0
                /\ streams[t].initialized
                /\ PositionIn(after, t) > 0)
                 => PositionIn(after, t) < PositionIn(after, s)]_vars

\* Under a policy other than FIFO, a stream entered a queue behind an
\* initialized stream which the policy alone would have put after it.
C19_Witness ==
  /\ intra_dimension_scheduling \in {"SmallestFirst", "LessRemainingPhaseFirst"}
  /\ \E d \in Dims :
       /\ Len(active_Streams[d]) = 2
       /\ LET t == streams[active_Streams[d][1]]
              s == streams[active_Streams[d][2]]
          IN /\ t.initialized /\ ~s.initialized
             /\ \/ s.initial_data_size < t.initial_data_size
                \/ Len(s.phases_to_go) < Len(t.phases_to_go)

\* ------------------------------------------------------------------------
\* Properties of the event delivery
\* ------------------------------------------------------------------------
\* C20: the events of a node are called in the order of their scheduled
\* ticks, each at its tick, and the events of one tick in the order in
\* which they were registered.
C20_EventsInTickThenRegistrationOrder ==
  /\ \A i \in DOMAIN delivered :
       delivered[i][2] = registered[delivered[i][1]]
  /\ \A i, j \in DOMAIN delivered :
       i < j =>
         \/ registered[delivered[i][1]] < registered[delivered[j][1]]
         \/ /\ registered[delivered[i][1]] = registered[delivered[j][1]]
            /\ delivered[i][1] < delivered[j][1]
  /\ \A event \in DOMAIN registered :
       (\A i \in DOMAIN delivered : delivered[i][1] # event)
         => registered[event] >= boostedTick

\* An event registered later for an earlier tick was called first, and two
\* events of one tick were called in their order of registration.
C20_Witness ==
  /\ Len(delivered) >= 3
  /\ \E i, j \in DOMAIN delivered :
       /\ i < j
       /\ delivered[i][1] > delivered[j][1]
       /\ delivered[i][2] < delivered[j][2]
  /\ \E i, j \in DOMAIN delivered :
       /\ i < j
       /\ delivered[i][2] = delivered[j][2]

\* ------------------------------------------------------------------------
\* Properties of the critical section
\* ------------------------------------------------------------------------
InsideSection == {t \in Threads : threads[t].at = "inside"}

\* C21: at most one thread is inside a sysCriticalSection at any time, and
\* a thread that leaves the section, by ExitSection or by the destructor,
\* releases the flag for a waiting thread.
C21_OneThreadInCriticalSection ==
  [][/\ Cardinality({t \in Threads : threads'[t].at = "inside"}) <= 1
     /\ \A t \in Threads :
          (threads[t].at = "inside" /\ threads'[t].at # "inside")
            => ~g_sys_inCriticalSection']_vars

\* The workload file has a recompute trigger on a layer with no checkpoint
\* layer at or before it.
TriggerWithoutCheckpoint ==
  \E t \in DOMAIN layers :
    /\ Lyr(t).needs_fwd_in_bckwd_initiation
    /\ \A c \in 0 .. t : ~Lyr(c).is_checkpoint

\* C22: when Input_Gradient meets a recompute trigger with no checkpoint
\* layer at or before it, the run ends in a ConfigError panic: the scan
\* neither goes below layer 0 nor lets the run continue.
C22_TriggerWithoutCheckpointPanics ==
  [][(/\ workload.current_state = "Input_Gradient"
      /\ ~workload.checkpoint_initiated
      /\ Lyr(workload.index).needs_fwd_in_bckwd_initiation
      /\ \A c \in 0 .. workload.index : ~Lyr(c).is_checkpoint
      /\ workload' # workload)
       => panic' = "ConfigError"]_vars

\* C27: in a run of a workload file in which every recompute trigger has a
\* checkpoint layer at or before it, the Transformer FSM is never entered
\* with an index outside 0 .. SIZE - 1, nor does it read a layer outside the
\* table: no tick ends in the failed entry assert or in a crash.
C27_IndexInRangeAtEntry ==
  (cfg.policy = "TransformerFwdInBckwd" /\ ~workload.pp_enabled
     /\ ~TriggerWithoutCheckpoint)
    => /\ panic \notin {"assert", "segfault"}
       /\ workload.index >= 0
       /\ workload.index < SIZE

\* The After_Delay event of DataSet d.
AfterDelayEvent(d) ==
  [callable |-> ToString(d.layer), event |-> After_Delay(d.phase),
   data |-> d.my_id, cycles |-> update_time(d.layer, d.phase)]

\* The DataSets of the step that are no longer there after it.
Erased == {d \in datasets : \A n \in datasets' : n.my_id # d.my_id}

\* C30: the step in which the last stream of a collective DataSet finishes
\* (Comm_Finished) only registers the After_Delay event of the DataSet,
\* update_time cycles ahead: the DataSet stays in the map of its layer and
\* streams_finished keeps its value.  As long as the DataSet is in the map
\* the is_*_comm_finished check of its layer answers false.  The step that
\* erases a DataSet is the handling of its After_Delay event: the event
\* leaves the queue, that one DataSet is erased, its id is never used again,
\* and streams_finished grows by its total_streams; streams_finished
\* changes in no other step.
C30_TwoStageCompletion ==
  [][~workload.pp_enabled =>
       /\ \A d \in datasets :
            ~is_comm_finished_blocking(NodeState, d.layer, d.phase).ret
       /\ \A d \in datasets, n \in datasets' :
            (/\ n.my_id = d.my_id
             /\ d.finished_streams < d.total_streams
             /\ n.finished_streams = n.total_streams)
              => /\ event_queue' = event_queue (+) SetToBag({AfterDelayEvent(d)})
                 /\ streams_finished' = streams_finished
                 /\ workload' = workload
                 /\ Erased = {}
       /\ \A d \in Erased :
            /\ d.finished_streams = d.total_streams
            /\ CopiesIn(AfterDelayEvent(d), event_queue) = 1
            /\ CopiesIn(AfterDelayEvent(d), event_queue') = 0
            /\ Erased = {d}
            /\ panic' = "none" =>
                 streams_finished' = streams_finished + d.total_streams
       /\ \A n \in datasets' :
            (\A d \in datasets : d.my_id # n.my_id) => n.my_id > dataset_ids
       /\ streams_finished' # streams_finished => Erased # {}]_vars

\* A collective of two streams was erased and counted, and another DataSet
\* whose streams have all finished waits in the map for its After_Delay
\* event, registered a positive number of cycles ahead.
C30_Witness ==
  /\ ~workload.pp_enabled
  /\ cfg.chunks = 2
  /\ streams_finished >= 2
  /\ \E d \in datasets :
       /\ d.finished_streams = d.total_streams
       /\ AfterDelayEvent(d).cycles > 0
       /\ CopiesIn(AfterDelayEvent(d), event_queue) = 1

\* C29: with every registered event called and every stream finished in the
\* end, the run of a workload file in which every recompute trigger has a
\* checkpoint layer at or before it completes TOTAL_PASS passes and reports
\* the workload finished.
C29_EventuallyReports ==
  TriggerWithoutCheckpoint
    \/ <>(workload.pass_counter = TOTAL_PASS /\ reports >= 1)

\* ------------------------------------------------------------------------
\* Properties of the data-parallel FSM
\* ------------------------------------------------------------------------
\* C23: under the DATA policy with S layers that each have a weight-gradient
\* all-reduce, every collective issued is the weight-gradient one of the
\* layers S-1 .. 0 in turn, a pass ends once and after exactly S of them,
\* and the run reports with streams_injected = streams_finished = the
\* streams of TOTAL_PASS * S collectives.
C23_DataParallelIssuesWeightGradientsOnly ==
  [][cfg.policy = "Data" =>
       /\ dataset_ids' \in {dataset_ids, dataset_ids + 1}
       /\ streams_injected' = cfg.chunks * dataset_ids'
       /\ dataset_ids' = dataset_ids + 1 =>
            /\ last_issue'.phase = "wg"
            /\ last_issue'.layer = SIZE - 1 - (dataset_ids % SIZE)
            /\ last_issue'.barrier = "Non_Blocking"
       /\ dataset_ids' = dataset_ids => last_issue' = last_issue
       /\ workload'.pass_counter # workload.pass_counter =>
            /\ workload'.pass_counter = workload.pass_counter + 1
            /\ dataset_ids' = SIZE * workload'.pass_counter
       /\ reports' # reports =>
            /\ reports' = 1
            /\ streams_injected' = cfg.chunks * SIZE * TOTAL_PASS
            /\ streams_finished' = streams_injected']_vars

\* A data-parallel run of two layers reported after its last pass.
C23_Witness ==
  /\ cfg.policy = "Data"
  /\ SIZE = 2
  /\ reports = 1
  /\ workload.pass_counter = TOTAL_PASS
  /\ streams_finished = 2 * TOTAL_PASS

\* A pipeline configuration init_pipeline_parallel has to refuse.
TooFewMicrobatches ==
  /\ cfg.pipeline_model_parallelism > 1
  /\ cfg.GA < cfg.pipeline_model_parallelism

\* C24: with pp_size > 1 and fewer microbatches than pipeline stages,
\* init_pipeline_parallel ends in sys_panic, and no microbatch is ever
\* scheduled: nothing is queued or in progress, no event is registered and
\* no DataSet is created.
C24_TooFewMicrobatchesPanic ==
  TooFewMicrobatches =>
    /\ panic = "sys_panic"
    /\ workload.pp_forward_queue = <<>>
    /\ workload.pp_backward_queue = <<>>
    /\ workload.pp_forward_in_progress = {}
    /\ workload.pp_backward_in_progress = {}
    /\ workload.pp_forward_completed = 0
    /\ event_queue = EmptyBag
    /\ dataset_ids = 0

C24_Witness ==
  /\ TooFewMicrobatches
  /\ workload.pp_enabled
  /\ workload.my_pp_stage = 0
  /\ panic = "sys_panic"

\* C28: with pipeline parallelism enabled, the FSM tick is never entered with
\* an index outside 0 .. SIZE - 1 (the entry assertion never fails), on any
\* stage.
C28_PipelineIndexInRange ==
  workload.pp_enabled => panic # "assert"

\* The capture state of the sniffer: the flag, the writer and the files.
CaptureState == <<pcap_opened, pcap_writer, pcap_files>>

\* No capture file is open: there is no writer.
NoFileOpen == pcap_writer = NoWriter

\* The latest call was WritePacketToPcap / ClosePcap, made with no capture
\* file open.
WriteWithoutFile ==
  /\ NoFileOpen
  /\ pcap_calls' = Append(pcap_calls, "WritePacketToPcap")

CloseWithoutFile ==
  /\ NoFileOpen
  /\ pcap_calls' = Append(pcap_calls, "ClosePcap")

\* C25 as stated: with no capture file open, WritePacketToPcap and ClosePcap
\* change no state at all, the debug stream included.
C25_NoChangeWithoutFile ==
  [][(WriteWithoutFile \/ CloseWithoutFile) =>
       /\ UNCHANGED CaptureState
       /\ UNCHANGED <<debug_mode, debug_ofs>>]_vars

\* C25, amended: with no capture file open (before any OpenPcap, after
\* ClosePcap, after a failed OpenPcap), WritePacketToPcap writes no frame
\* and leaves pcap_opened, pcap_writer and every capture file as they were,
\* and so does ClosePcap; on the debug stream WritePacketToPcap may write a
\* line and ClosePcap closes it.
C25_CaptureUnchangedWithoutFile ==
  [][(WriteWithoutFile \/ CloseWithoutFile) =>
       /\ UNCHANGED CaptureState
       /\ debug_mode' = debug_mode
       /\ debug_ofs'.lines >= debug_ofs.lines
       /\ (WriteWithoutFile => debug_ofs'.is_open = debug_ofs.is_open)
       /\ (CloseWithoutFile => ~debug_ofs'.is_open)]_vars

\* WritePacketToPcap and ClosePcap were both called after a failed OpenPcap
\* that followed a successful one, and a file written before is intact.
C25_Witness ==
  /\ Len(pcap_calls) >= 5
  /\ SubSeq(pcap_calls, 1, 5) =
       <<"OpenPcap", "WritePacketToPcap", "OpenPcap failed",
         "WritePacketToPcap", "ClosePcap">>
  /\ \E f \in FileNames : Len(pcap_files[f]) = 1

C40_OpenedIffWriter ==
  pcap_opened <=> (pcap_writer # NoWriter)

\* The ethertypes isEthernet recognises.
KnownEthertypes == {2048, 34525, 2054, 34997}

\* C34: every frame handed to write_frame_with_timestamp has at least 14
\* bytes and a recognised ethertype at bytes 12-13; when neither the
\* payload nor the serialized header was detected as Ethernet it is the
\* payload behind the header 00:00:00:00:00:01, 00:00:00:00:00:02 and
\* ethertype 0x0800 (IPv4 payload) or 0x88B5, for every payload length.
C34_FrameHasEthernetHeader ==
  last_frame # NoFrame =>
    /\ Len(last_frame.frame) >= 14
    /\ Word(last_frame.frame, 12) \in KnownEthertypes
    /\ ~last_frame.hasEthernet =>
         /\ Len(last_frame.frame) = 14 + last_frame.payload_size
         /\ SubSeq(last_frame.frame, 1, 12) =
              <<0, 0, 0, 0, 0, 1, 0, 0, 0, 0, 0, 2>>
         /\ Word(last_frame.frame, 12) =
              IF last_frame.hasIpv4 THEN 2048 ELSE 34997

\* The IPv4 header of the frame lies at offset 14 and is complete.
HeaderInFrame(frame) ==
  /\ Len(frame) >= 34
  /\ 14 + (frame[15] % 16) * 4 <= Len(frame)

\* The one's-complement sum of the header words, checksum included.
HeaderSum(frame) ==
  FoldCarries(SumWords(SubSeq(frame, 15, Len(frame)), (frame[15] % 16) * 4))

\* C35: the IPv4 header of a frame whose checksum WritePacketToPcap fixed
\* verifies: the one's-complement sum of its IHL*4 bytes as big-endian
\* words is 0xFFFF, on a host of either byte order.
C35_ChecksumVerifies ==
  (/\ last_frame # NoFrame
   /\ last_frame.hasIpv4
   /\ HeaderInFrame(last_frame.frame))
    => HeaderSum(last_frame.frame) = 65535

\* ------------------------------------------------------------------------
\* Further properties of the Workload FSM
\* ------------------------------------------------------------------------
\* The step delivers an event of the Workload: the FSM is entered.
WorkloadEntered ==
  \E e \in BagToSet(event_queue) :
    /\ e.callable = "workload"
    /\ CopiesIn(e, event_queue') < CopiesIn(e, event_queue)

C31_PriorityFollowsIssuePolicy ==
  \A j \in DOMAIN issued :
    /\ issued[j].policy = "HIGHEST" => issued[j].priority = 100000000
    /\ \A i \in 1 .. j - 1 :
         /\ (issued[i].policy = "LIFO" /\ issued[j].policy = "LIFO")
              => issued[j].priority > issued[i].priority
         /\ (issued[i].policy = "FIFO" /\ issued[j].policy = "FIFO")
              => issued[j].priority < issued[i].priority

\* steady-state count of init_pipeline_parallel's log line.
steady_microbatches(w) ==
  w.num_microbatches - w.warmup_microbatches - w.cooldown_microbatches

\* C32: with four stages and eight microbatches, stage s has 3 - s warmup
\* microbatches, 4 steady-state microbatches and s + 1 cooldown
\* microbatches, which add up to the eight microbatches.
C32_WarmupSteadyCooldown ==
  (cfg.pipeline_model_parallelism = 4 /\ cfg.GA = 8 /\ workload.pp_enabled)
    => LET s == workload.my_pp_stage
       IN /\ workload.warmup_microbatches = 3 - s
          /\ steady_microbatches(workload) = 4
          /\ workload.cooldown_microbatches = s + 1
          /\ workload.warmup_microbatches + steady_microbatches(workload)
               + workload.cooldown_microbatches = 8

\* Pipeline parallelism runs with enough microbatches for the stages.
PipelineRuns ==
  /\ workload.pp_enabled
  /\ workload.num_microbatches >= workload.pp_size

\* The node has come to rest: the process died, or no event is registered
\* and no transfer is in flight, so that nothing will ever call the
\* Workload again.
Halted ==
  \/ panic # "none"
  \/ /\ event_queue = EmptyBag
     /\ \A d \in datasets : d.finished_streams = d.total_streams

\* C33: with pipeline parallelism and num_microbatches >= pp_size, every
\* stage goes on until the forward and the backward of all its microbatches
\* are done and pass_counter is incremented: no stage comes to rest, with
\* nothing scheduled, before the first pass is counted.
C33_NoStageHaltsBeforeThePass ==
  (PipelineRuns /\ workload.pass_counter = 0) => ~Halted

\* The initialized streams in the queue of dimension d.
InitializedIn(d) ==
  {k \in 1 .. Len(active_Streams[d]) :
     streams[active_Streams[d][k]].initialized}

\* The streams that left the ready list and have not finished.
Promoted ==
  {s \in DOMAIN streams :
     /\ \A k \in 1 .. Len(ready_list) : ready_list[k] # s
     /\ streams[s].state # "Dead"}

\* C39: running_streams[d] is the number of initialized streams in the
\* queue of dimension d, total_running_streams the number of streams
\* promoted from the ready list and not yet finished; no counter is
\* negative, and with no stream outstanding all of them are 0.
C39_CountersMatchTheQueues ==
  /\ \A d \in Dims : running_streams[d] = Cardinality(InitializedIn(d))
  /\ total_running_streams = Cardinality(Promoted)
  /\ \A d \in Dims : running_streams[d] >= 0
  /\ total_running_streams >= 0
  /\ (ready_list = <<>> /\ Promoted = {})
       => /\ total_running_streams = 0
          /\ \A d \in Dims : running_streams[d] = 0

\* Stream s is outstanding: generated and not yet removed.
Outstanding(s) == s \in DOMAIN streams /\ streams[s].state # "Dead"

\* A phase is running: the collective algorithm of some stream will hand
\* it back to proceed_to_next_vnet_baseline.
PhaseRunning == \E s \in DOMAIN streams : streams[s].state = "Executing"

\* C36: every stream placed on the ready list is in the end promoted,
\* initialized, run through all its phases and removed, as long as every
\* running phase ends: none waits forever behind queue_threshold or
\* max_running_streams.  While a stream is outstanding a phase is running,
\* or else no further call would ever reach the scheduler on its behalf.
C36_NoStreamLeftWaiting ==
  (\E s \in DOMAIN streams : Outstanding(s)) => PhaseRunning

\* The n-th sim_send call has been made / has been handed to the backend.
Called(n) == n <= Len(send_calls)

Forwarded(n) ==
  \E key \in SendKeys :
    \E k \in 1 .. Len(NI_forwarded[key]) : NI_forwarded[key][k] = n

\* C37: every sim_send request, also one made with delay > 0 on an idle
\* (dst, tag), is eventually forwarded to the backend when the backend
\* reports PacketSent for every send it was given.
C37_EverySendIsForwarded ==
  \A n \in 1 .. MaxSends : Called(n) ~> Forwarded(n)

====
